---- MODULE Spec2Model ----
(***************************************************************************)
(* A model of the 3TZ archive reader of wff-tools: archive3tz.py (ZIP      *)
(* parsing, the MD5 index and its binary search, decompression),           *)
(* index3tz.py (index synthesis for plain ZIPs) and the archive handle of  *)
(* 3ts.py (Single3tzArchive).                                              *)
(*                                                                         *)
(* Files are sequences of bytes (0..255).  Unsigned 64-bit values are kept *)
(* as their 8 little-endian bytes, so that their width is the code's.      *)
(* Python exceptions are results with an "err" field naming the exception  *)
(* class; Python's None is the record NoneVal.                             *)
(***************************************************************************)
EXTENDS Integers, Sequences, FiniteSets, TLC

VARIABLES
    \* ---- the index search, one loop iteration per step (archive3tz.py:215-236)
    sIndex,     \* the index blob handed to readIndex
    sPath,      \* the filepath looked up
    low, high,  \* the search interval
    probed,     \* the entry positions read so far by index[mid]
    sRet,       \* what the search returned (or raised)
    spc,        \* "idle" | "start" | "loop" | "done"
    \* ---- one archive, one handle on it and their callers
    fs,         \* the file at containerpath: its bytes and zipfile's view of it
    zstd,       \* whether the zstandard module was imported (archive3tz.py:15-22)
    handle,     \* the attributes of the Single3tzArchive object
    opened,     \* whether Single3tzArchive(containerpath) has returned the object
    exited,     \* whether the process has ended in exit(-1)
    last,       \* the last operation: its result and what it parsed and read
    \* ---- one call of decompressFileContents (archive3tz.py:82-104)
    dMethod,    \* compMethod, the 2 bytes of the header field
    dSize,      \* uncompressedFilesize
    dBytes,     \* the bytes handed in
    dOut,       \* what the call returned or raised; NotCalled before it
    \* ---- one central directory entry resolved to its local file header
    \*      (archive3tz.py:35-60, 152-168)
    zRel,       \* the 4 bytes of relativeOffsetOfLocalHeader
    zTuples,    \* the (tag, size, payload) tuples of the entry's extra field
    zCde,       \* the parsed entry
    zOut,       \* what getLocalFileHeaderFromCentralDirectoryEntry returned or raised
    zpc,        \* "idle" | "bytes" | "parsed" | "resolved"
    \* ---- one call of buildIndex (index3tz.py:104-126)
    bItems,     \* the entries of the ZIP, in directory order
    bOut,       \* what buildIndex returned or raised; NotCalled before it
    \* ---- one call of glbjson.getChunksFromBuffer (glbjson.py:59-78)
    gBuffer,    \* the bytes of the GLB
    gOut,       \* what the call returned or raised; NotCalled before it
    \* ---- one call of subtreejson.getChunksFromBuffer (subtreejson.py:38-56)
    uBuffer,    \* the bytes of the subtree file
    uOut,       \* what the call returned or raised; NotCalled before it
    \* ---- one call of gltf.denormalize (gltf.py:57-75)
    nType,      \* the component type
    nValue,     \* the raw value: [neg, mag], mag its magnitude as 8 bytes
    nOut,       \* what the call returned or raised; NotCalled before it
    \* ---- one property of one property table, held by two GltfDocuments, and
    \* ---- one call of getFeatureTablePropertyValues on each (gltf.py:514-846)
    docOld,     \* the document under EXT_feature_metadata, Absent when the
                \* property has no encoding there
    docNew,     \* the document under EXT_structural_metadata
    outOld,     \* what the call on docOld returned or raised; NotCalled before it
    outNew,     \* the same for docNew
    \* ---- one GltfDocument: its construction and its calls of loadAllBuffers
    \*      (gltf.py:168-197, 214-226)
    lFile,      \* the bytes handed to GltfDocument(buffer, basePath)
    lDoc,       \* what json.loads makes of the JSON in them: the "buffers" member
    lpc,        \* "idle" | "file" | "constructed" | "failed"
    lBuffers,   \* self.buffers
    lLoads,     \* the calls of loadAllBuffers so far
    lOut,       \* what the last call of loadAllBuffers returned or raised
    \* ---- one handler of 3ts.py and the GET requests it answers, one after
    \*      the other (HTTPServer, 3ts.py:599)
    hKind,      \* "3tz": Serve3tzHandler, "directory": ServeFromDirectoryHandler
    hFiles,     \* the files the handler can open: path -> container
    hArchives,  \* self.archives: archive path -> the Single3tzArchive object
    hOpened,    \* the paths Single3tzArchive was constructed with, in order
    hRequest,   \* the request of the last do_GET: path and Accept-Encoding
    hResponse,  \* what that do_GET wrote, got from getFile and raised
    hExited,    \* whether the process has ended in exit(-1)
    \* ---- Single3tzArchive objects used side by side, their getFile calls
    \*      advancing one file operation at a time
    tFile,      \* handle -> the container its file object was opened on
    tHandle,    \* handle -> the attributes of the object: index, file position
    tFetch,     \* handle -> the getFile call it is in: path, step, locals, result
    tCount      \* handle -> the number of getFile calls begun on it

lookupVars == <<sIndex, sPath, low, high, probed, sRet, spc>>
archVars == <<fs, zstd, handle, opened, exited, last>>
codecVars == <<dMethod, dSize, dBytes, dOut>>
zip64Vars == <<zRel, zTuples, zCde, zOut, zpc>>
buildVars == <<bItems, bOut>>
glbVars == <<gBuffer, gOut>>
subtreeVars == <<uBuffer, uOut>>
normVars == <<nType, nValue, nOut>>
metaVars == <<docOld, docNew, outOld, outNew>>
loadVars == <<lFile, lDoc, lpc, lBuffers, lLoads, lOut>>
serveVars == <<hKind, hFiles, hArchives, hOpened, hRequest, hResponse, hExited>>
fetchVars == <<tFile, tHandle, tFetch, tCount>>
harnessVars == <<zip64Vars, buildVars, glbVars, subtreeVars, normVars, metaVars, loadVars, serveVars, fetchVars>>
vars == <<lookupVars, archVars, codecVars, harnessVars>>

(***************************************************************************)
(* Bytes and Python slices                                                 *)
(***************************************************************************)
Min(a, b) == IF a < b THEN a ELSE b
Max(a, b) == IF a > b THEN a ELSE b
SetMax(S) == CHOOSE x \in S : \A y \in S : y <= x

\* bytes[a:b] of Python: both ends clamped, a negative end counted from the back
PySlice(s, a, b) ==
    LET n  == Len(s)
        a1 == IF a < 0 THEN Max(n + a, 0) ELSE Min(a, n)
        b1 == IF b < 0 THEN Max(n + b, 0) ELSE Min(b, n)
    IN  SubSeq(s, a1 + 1, b1)

\* n.to_bytes(w, byteorder='little'), struct.pack('<Q', n)
RECURSIVE ToLE(_, _)
ToLE(n, w) == IF w = 0 THEN <<>> ELSE <<n % 256>> \o ToLE(n \div 256, w - 1)

\* int.from_bytes(b, byteorder='little'), struct.unpack('<Q', b)
RECURSIVE FromLE(_)
FromLE(b) == IF b = <<>> THEN 0 ELSE b[1] + 256 * FromLE(Tail(b))

\* bytes([x]) * n
Repeat(x, n) == [i \in 1..n |-> x]

RECURSIVE Concat(_)
Concat(ss) == IF ss = <<>> THEN <<>> ELSE Head(ss) \o Concat(Tail(ss))

\* unsigned comparison of two 64-bit values held as 8 little-endian bytes
U64Less(x, y) ==
    LET d == {i \in 1..8 : x[i] # y[i]}
    IN  d # {} /\ x[SetMax(d)] < y[SetMax(d)]

NoneVal == [kind |-> "None"]
IntVal(n) == [kind |-> "int", v |-> n]
Raise(e) == [kind |-> "raise", err |-> e]
Running == [kind |-> "running"]
\* an exception raised with the file's reader left at pos
RaiseAt(e, pos) == [kind |-> "raise", err |-> e, pos |-> pos]

(***************************************************************************)
(* File names (UTF-8 bytes) and their MD5 digests (hashlib.md5)            *)
(***************************************************************************)
NameA == <<97>>                                           \* "a"
NameJson == <<98, 47, 99, 46, 106, 115, 111, 110>>        \* "b/c.json"
NameDir == <<100, 105, 114, 47>>                          \* "dir/"
NameIndex == <<64, 51, 100, 116, 105, 108, 101, 115, 73, 110, 100, 101, 120, 49, 64>>
NameLong == <<100, 47>> \o Repeat(110, 99)                \* "d/" and 99 times "n"
NameQ0 == <<113, 48>>                                     \* "q0"
NameQ2 == <<113, 50>>                                     \* "q2"

md5digest(name) ==
    CASE name = NameA     -> <<12, 193, 117, 185, 192, 241, 182, 168, 49, 195, 153, 226, 105, 119, 38, 97>>
      [] name = NameJson  -> <<84, 11, 37, 40, 62, 48, 66, 170, 196, 112, 224, 219, 2, 89, 45, 167>>
      [] name = NameDir   -> <<163, 30, 68, 28, 179, 136, 140, 141, 206, 16, 72, 251, 98, 112, 224, 134>>
      [] name = NameIndex -> <<206, 199, 141, 163, 157, 161, 156, 67, 189, 3, 129, 210, 208, 53, 159, 187>>
      [] name = NameLong  -> <<84, 83, 166, 223, 162, 15, 95, 66, 65, 189, 63, 18, 140, 77, 167, 191>>
      [] name = NameQ0    -> <<97, 226, 63, 196, 1, 232, 130, 132, 11, 71, 27, 59, 18, 90, 104, 169>>
      [] name = NameQ2    -> <<116, 213, 2, 167, 19, 28, 218, 201, 14, 236, 223, 176, 83, 28, 78, 135>>

\* [a, b] = struct.unpack("QQ", digest): the two little-endian halves
md5halves(name) ==
    [lo |-> PySlice(md5digest(name), 0, 8), hi |-> PySlice(md5digest(name), 8, 16)]

(***************************************************************************)
(* The index: class Index, readIndex (archive3tz.py:189-206)               *)
(***************************************************************************)
\* Index.__len__: int(len(self.index) / 3), self.index the blob cast to "Q"
IndexLen(indexBytes) == (Len(indexBytes) \div 8) \div 3

\* whether index[i] reads inside the view (3*i, 3*i+1 and 3*i+2 all exist)
IndexInRange(indexBytes, i) == i >= 0 /\ 3 * i + 2 < Len(indexBytes) \div 8

\* Index.__getitem__: [lo, hi, offset] of entry i
IndexItem(indexBytes, i) ==
    [lo  |-> PySlice(indexBytes, 24 * i, 24 * i + 8),
     hi  |-> PySlice(indexBytes, 24 * i + 8, 24 * i + 16),
     off |-> PySlice(indexBytes, 24 * i + 16, 24 * i + 24)]

IndexEntries(indexBytes) == [i \in 1..IndexLen(indexBytes) |-> IndexItem(indexBytes, i - 1)]

\* struct.pack('<QQQ', lo, hi, offset) of one entry
PackEntry(e) == e.lo \o e.hi \o e.off
PackIndex(entries) == Concat([i \in 1..Len(entries) |-> PackEntry(entries[i])])

\* a comparison that looks at lo only (what md5LessThan would be without hi)
md5LessThanNoTiebreak(aLo, aHi, bLo, bHi) == U64Less(aLo, bLo)

md5LessThan(aLo, aHi, bLo, bHi) ==
    IF aLo = bLo THEN U64Less(aHi, bHi) ELSE U64Less(aLo, bLo)

(***************************************************************************)
(* findLocalFileHeaderOffsetInIndex (archive3tz.py:215-236)                *)
(***************************************************************************)
\* a loop that probes the lowest position left instead of the middle one
SearchIterLinear(indexBytes, key, st) ==
    IF ~(st.low <= st.high)
    THEN [st EXCEPT !.ret = NoneVal]
    ELSE LET mid == st.low
         IN  IF ~IndexInRange(indexBytes, mid)
             THEN [st EXCEPT !.probed = Append(@, mid), !.ret = Raise("IndexError")]
             ELSE LET entry == IndexItem(indexBytes, mid)
                  IN  IF entry.lo = key.lo /\ entry.hi = key.hi
                      THEN [st EXCEPT !.probed = Append(@, mid),
                                      !.ret = IntVal(FromLE(entry.off))]
                      ELSE IF md5LessThan(entry.lo, entry.hi, key.lo, key.hi)
                      THEN [st EXCEPT !.probed = Append(@, mid), !.low = mid + 1]
                      ELSE [st EXCEPT !.probed = Append(@, mid), !.high = mid - 1]

\* One evaluation of the loop condition and, when it holds, of the loop body.
\* st = [low, high, probed, ret]; ret = Running while the loop goes on.
SearchIter(indexBytes, key, st) ==
    IF ~(st.low <= st.high)
    THEN [st EXCEPT !.ret = NoneVal]
    ELSE LET mid == st.low + (st.high - st.low) \div 2
         IN  IF ~IndexInRange(indexBytes, mid)
             THEN [st EXCEPT !.probed = Append(@, mid), !.ret = Raise("IndexError")]
             ELSE LET entry == IndexItem(indexBytes, mid)
                  IN  IF entry.lo = key.lo /\ entry.hi = key.hi
                      THEN [st EXCEPT !.probed = Append(@, mid),
                                      !.ret = IntVal(FromLE(entry.off))]
                      ELSE IF md5LessThan(entry.lo, entry.hi, key.lo, key.hi)
                      THEN [st EXCEPT !.probed = Append(@, mid), !.low = mid + 1]
                      ELSE [st EXCEPT !.probed = Append(@, mid), !.high = mid - 1]

SearchStart(indexBytes) ==
    [low |-> 0, high |-> IndexLen(indexBytes), probed |-> <<>>, ret |-> Running]

\* the loop: each iteration's state is computed once and handed to the next
RECURSIVE SearchRun(_, _, _)
SearchRun(indexBytes, key, st) ==
    IF st.ret # Running THEN st
    ELSE CHOOSE r \in {SearchRun(indexBytes, key, n) :
                          n \in {SearchIter(indexBytes, key, st)}} : TRUE

findLocalFileHeaderOffsetInIndex(indexBytes, filepath) ==
    SearchRun(indexBytes, md5halves(filepath), SearchStart(indexBytes)).ret

(***************************************************************************)
(* sorted(unsortedIndex, key=operator.itemgetter(0, 1)) (index3tz.py:122): *)
(* a stable sort on (lo, hi), compared as unsigned integers                *)
(***************************************************************************)
KeyLess(e, f) == IF e.lo = f.lo THEN U64Less(e.hi, f.hi) ELSE U64Less(e.lo, f.lo)

\* e goes after every element that is not greater than it (stability)
RECURSIVE InsertSorted(_, _)
InsertSorted(e, s) ==
    IF s = <<>> THEN <<e>>
    ELSE IF KeyLess(e, Head(s)) THEN <<e>> \o s
    ELSE <<Head(s)>> \o InsertSorted(e, Tail(s))

RECURSIVE SortEntriesFrom(_, _)
SortEntriesFrom(done, rest) ==
    IF rest = <<>> THEN done
    ELSE SortEntriesFrom(InsertSorted(Head(rest), done), Tail(rest))

SortEntries(entries) == SortEntriesFrom(<<>>, entries)

IsSortedEntries(entries) ==
    \A i \in 1..Len(entries) - 1 : ~KeyLess(entries[i + 1], entries[i])

(***************************************************************************)
(* checkIfSupportedZipItem and buildIndex (index3tz.py:24-48, 104-126).    *)
(* infolist is what zipfile.ZipFile(zipPath).infolist() gives: one record  *)
(* per central directory entry, in directory order.                        *)
(***************************************************************************)
Bit(n, k) == (n \div (2 ^ k)) % 2

\* ZipInfo.is_dir(): the name ends with "/"
IsDir(item) == Len(item.filename) > 0 /\ item.filename[Len(item.filename)] = 47

\* TRUE when checkIfSupportedZipItem returns, FALSE when it raises AssertionError
checkIfSupportedZipItem(item) ==
    /\ item.compress_type \in {8, 93, 0}
    /\ Bit(item.flag_bits, 0) = 0 /\ Bit(item.flag_bits, 3) = 0
    /\ Bit(item.flag_bits, 5) = 0 /\ Bit(item.flag_bits, 13) = 0
    /\ ~(item.compress_size = 0 /\ item.file_size # 0)

\* the [lo, hi, offset] appended for one item
IndexEntryOf(item) ==
    [lo  |-> md5halves(item.filename).lo,
     hi  |-> md5halves(item.filename).hi,
     off |-> ToLE(item.header_offset, 8)]

IsIndexed(item) == ~IsDir(item) /\ item.filename # NameIndex

RECURSIVE UnsortedIndex(_)
UnsortedIndex(infolist) ==
    IF infolist = <<>> THEN <<>>
    ELSE (IF IsIndexed(Head(infolist)) THEN <<IndexEntryOf(Head(infolist))>> ELSE <<>>)
         \o UnsortedIndex(Tail(infolist))

\* the index as it would be packed without the sort of line 122
buildIndexNoSort(infolist) ==
    IF \E i \in 1..Len(infolist) : ~checkIfSupportedZipItem(infolist[i])
    THEN Raise("AssertionError")
    ELSE [kind |-> "bytes", v |-> PackIndex(UnsortedIndex(infolist))]

buildIndex(infolist) ==
    IF \E i \in 1..Len(infolist) : ~checkIfSupportedZipItem(infolist[i])
    THEN Raise("AssertionError")
    ELSE [kind |-> "bytes", v |-> PackIndex(SortEntries(UnsortedIndex(infolist)))]

(***************************************************************************)
(* The byte layout of a ZIP file, as the parsers below read it             *)
(* (archive3tz.py:24-60, 129-149): local file headers and payloads, the    *)
(* central directory, the end-of-central-directory record and its comment. *)
(* A member is [filename, flag_bits, compress_type, file_size, data,       *)
(* extra]: data is the payload as stored, extra the header's extra field.  *)
(***************************************************************************)
ENDOFCENTRALDIRECTORY == <<80, 75, 5, 6>>
STARTOFCENTRALDIRECTORY == <<80, 75, 1, 2>>
LOCALFILEHEADERSIGNATURE == <<80, 75, 3, 4>>
LOCALFILEHEADERSIZE == 30
LfhProbe == 100
TailWindow == 320
ZIP_COMPRESSION_METHOD_DEFLATE == <<8, 0>>
ZIP_COMPRESSION_METHOD_STORE == <<0, 0>>
ZIP_COMPRESSION_METHOD_ZSTD == <<93, 0>>
ZIP_COMPRESSION_METHOD_ZSTD_OLD == <<23, 0>>

Member(name, method, fileSize, data) ==
    [filename |-> name, flag_bits |-> 0, compress_type |-> method,
     file_size |-> fileSize, data |-> data, extra |-> <<>>]

LocalBytes(m) ==
    LOCALFILEHEADERSIGNATURE \o ToLE(20, 2) \o ToLE(m.flag_bits, 2)
    \o ToLE(m.compress_type, 2) \o Repeat(0, 8)
    \o ToLE(Len(m.data), 4) \o ToLE(m.file_size, 4)
    \o ToLE(Len(m.filename), 2) \o ToLE(Len(m.extra), 2)
    \o m.filename \o m.extra \o m.data

DirectoryBytes(m, offset) ==
    STARTOFCENTRALDIRECTORY \o ToLE(20, 2) \o ToLE(20, 2) \o ToLE(m.flag_bits, 2)
    \o ToLE(m.compress_type, 2) \o Repeat(0, 8)
    \o ToLE(Len(m.data), 4) \o ToLE(m.file_size, 4)
    \o ToLE(Len(m.filename), 2) \o ToLE(0, 2) \o ToLE(0, 2)
    \o Repeat(0, 8) \o ToLE(offset, 4) \o m.filename

\* the offset of member k's local file header
RECURSIVE HeaderOffset(_, _, _)
HeaderOffset(prefixLen, members, k) ==
    IF k = 1 THEN prefixLen
    ELSE HeaderOffset(prefixLen, members, k - 1) + Len(LocalBytes(members[k - 1]))

EndRecordBytes(n, cdSize, cdOffset, comment) ==
    ENDOFCENTRALDIRECTORY \o Repeat(0, 4) \o ToLE(n, 2) \o ToLE(n, 2)
    \o ToLE(cdSize, 4) \o ToLE(cdOffset, 4) \o ToLE(Len(comment), 2) \o comment

ZipBytes(prefix, members, comment) ==
    LET n      == Len(members)
        locals == Concat([k \in 1..n |-> LocalBytes(members[k])])
        cd     == Concat([k \in 1..n |->
                     DirectoryBytes(members[k], HeaderOffset(Len(prefix), members, k))])
    IN  prefix \o locals \o cd
        \o EndRecordBytes(n, Len(cd), Len(prefix) + Len(locals), comment)

\* zipfile's view of the same file
ZipInfolist(prefix, members) ==
    [k \in 1..Len(members) |->
        [filename |-> members[k].filename, flag_bits |-> members[k].flag_bits,
         compress_type |-> members[k].compress_type,
         compress_size |-> Len(members[k].data), file_size |-> members[k].file_size,
         header_offset |-> HeaderOffset(Len(prefix), members, k)]]

\* the members of a 3tz: the files and, tail, the stored index built from them
With3tzIndex(prefix, members) ==
    LET blob == buildIndex(ZipInfolist(prefix, members)).v
    IN  Append(members, Member(NameIndex, 0, Len(blob), blob))

(***************************************************************************)
(* Decompression (archive3tz.py:82-104).  zlib and zstandard are libraries:*)
(* their streams are stood for by run-length streams, pairs <<count, byte>>*)
(* that expand to count copies of byte; a stream of odd length or with a   *)
(* zero count is one the library rejects.                                  *)
(***************************************************************************)
\* the pairs lo..hi of x, expanded
RECURSIVE RunLengthRange(_, _, _)
RunLengthRange(x, lo, hi) ==
    IF lo > hi THEN <<>>
    ELSE IF lo = hi THEN Repeat(x[2 * lo], x[2 * lo - 1])
    ELSE RunLengthRange(x, lo, (lo + hi) \div 2)
         \o RunLengthRange(x, (lo + hi) \div 2 + 1, hi)

RunLengthExpand(x) == RunLengthRange(x, 1, Len(x) \div 2)

StreamOk(x) == Len(x) % 2 = 0 /\ \A i \in 1..Len(x) : i % 2 = 1 => x[i] > 0

\* zlib.decompress(bytes, -zlib.MAX_WBITS)
zlibDecompress(x) ==
    IF StreamOk(x) THEN [kind |-> "bytes", v |-> RunLengthExpand(x)]
    ELSE Raise("zlib.error")

\* zstd.decompress(bytes, max_output_size=n), the frame carrying no content size
zstdDecompress(x, n) ==
    IF ~StreamOk(x) THEN Raise("ZstdError")
    ELSE IF Len(RunLengthExpand(x)) > n THEN Raise("ZstdError")
    ELSE [kind |-> "bytes", v |-> RunLengthExpand(x)]

\* zstdLoaded: whether "import zstandard" succeeded (the module's global zstd)
decompressFileContents(zstdLoaded, compMethod, uncompressedFilesize, bytes) ==
    IF compMethod = ZIP_COMPRESSION_METHOD_DEFLATE
    THEN LET u == zlibDecompress(bytes)
         IN  IF u.kind = "raise" THEN u
             ELSE IF Len(u.v) # uncompressedFilesize THEN Raise("Exception")
             ELSE u
    ELSE IF compMethod = ZIP_COMPRESSION_METHOD_ZSTD \/ compMethod = ZIP_COMPRESSION_METHOD_ZSTD_OLD
    THEN IF ~zstdLoaded THEN Raise("NotImplementedError")
         ELSE LET u == zstdDecompress(bytes, uncompressedFilesize)
              IN  IF u.kind = "raise" THEN u
                  ELSE IF Len(u.v) # uncompressedFilesize THEN Raise("Exception")
                  ELSE u
    ELSE IF compMethod # ZIP_COMPRESSION_METHOD_STORE
    THEN Raise("Exception")
    ELSE [kind |-> "bytes", v |-> bytes]

(***************************************************************************)
(* The ZIP parsers (archive3tz.py:35-186).  A file object is the bytes of  *)
(* the file and the position of its reader; an operation that moves the    *)
(* reader returns the new position in "pos".                               *)
(***************************************************************************)
\* bytes.decode('utf-8') succeeds; the model's names are ASCII
DecodeOk(b) == \A i \in 1..Len(b) : b[i] < 128

\* file[from:].rfind(pat): the last position, counted from "from", where pat
\* starts, or -1
RFind(file, from, pat) ==
    LET S == {i \in 0..(Len(file) - from - Len(pat)) :
                 \A j \in 1..Len(pat) : file[from + i + j] = pat[j]}
    IN  IF S = {} THEN -1 ELSE SetMax(S)

\* relativeOffsetOfLocalHeader is kept as its 4 bytes: 0xFFFFFFFF is compared
\* as bytes and converted to an integer only when it is an offset
parseCentralDirectoryEntry(bytes) ==
    LET filenameLength    == FromLE(PySlice(bytes, 28, 30))
        extraFieldLength  == FromLE(PySlice(bytes, 30, 32))
        fileCommentLength == FromLE(PySlice(bytes, 32, 34))
    IN  IF ~DecodeOk(PySlice(bytes, 46, 46 + filenameLength))
        THEN Raise("UnicodeDecodeError")
        ELSE [kind |-> "cde",
              signature |-> PySlice(bytes, 0, 4),
              compressionMethod |-> PySlice(bytes, 10, 12),
              compressedSize |-> FromLE(PySlice(bytes, 20, 24)),
              uncompressedSize |-> FromLE(PySlice(bytes, 24, 28)),
              filenameLength |-> filenameLength,
              extraFieldLength |-> extraFieldLength,
              fileCommentLength |-> fileCommentLength,
              relativeOffsetOfLocalHeader |-> PySlice(bytes, 42, 46),
              filename |-> PySlice(bytes, 46, 46 + filenameLength),
              extraField |-> PySlice(bytes, 46 + filenameLength,
                                     46 + filenameLength + extraFieldLength)]

\* file.seek(offset); file.read(LOCALFILEHEADERSIZE + 100); the fields.
\* "at" is the offset the header was parsed at and "pos" the reader's position
\* after the read (file.tell()); the other fields are the dictionary's.
getLocalFileHeaderAtOffset(file, offset) ==
    LET bytes == PySlice(file, offset, offset + LOCALFILEHEADERSIZE + LfhProbe)
        filenameLength   == FromLE(PySlice(bytes, 26, 28))
        extraFieldLength == FromLE(PySlice(bytes, 28, 30))
        name == PySlice(bytes, LOCALFILEHEADERSIZE, LOCALFILEHEADERSIZE + filenameLength)
    IN  IF ~DecodeOk(name)
        THEN RaiseAt("UnicodeDecodeError", offset + Len(bytes))
        ELSE [kind |-> "lfh",
              at |-> offset,
              pos |-> offset + Len(bytes),
              signature |-> PySlice(bytes, 0, 4),
              compressionMethod |-> PySlice(bytes, 8, 10),
              compressedSize |-> FromLE(PySlice(bytes, 18, 22)),
              uncompressedSize |-> FromLE(PySlice(bytes, 22, 26)),
              filenameLength |-> filenameLength,
              extraFieldLength |-> extraFieldLength,
              filename |-> name,
              extraField |-> PySlice(bytes, LOCALFILEHEADERSIZE + filenameLength,
                                     LOCALFILEHEADERSIZE + filenameLength + extraFieldLength)]

\* the position file.seek is called with: file.tell() + lengths - 100
seekToFileContentsStartFromLocalFileHeader(pos, lfh) ==
    pos + lfh.filenameLength + lfh.extraFieldLength - LfhProbe

\* seek, file.read(compressedSize) and the length test shared by
\* getRawFileContentsFromLocalFileHeader and getFileContentsFromLocalFileHeader;
\* "readAt" is the position the payload was read at
ReadPayload(file, pos, lfh) ==
    LET target == seekToFileContentsStartFromLocalFileHeader(pos, lfh)
        filesize == lfh.compressedSize
        rawContents == PySlice(file, target, target + filesize)
    IN  IF target < 0 THEN RaiseAt("OSError", pos)
        ELSE IF Len(rawContents) # filesize
        THEN RaiseAt("Exception", target + Len(rawContents))
        ELSE [kind |-> "payload", v |-> rawContents, readAt |-> target,
              pos |-> target + Len(rawContents)]

\* [compmethod, uncompressedFilesize, rawContents]
getRawFileContentsFromLocalFileHeader(file, pos, lfh) ==
    LET r == ReadPayload(file, pos, lfh)
    IN  IF r.kind = "raise" THEN r
        ELSE [kind |-> "raw", compMethod |-> lfh.compressionMethod,
              uncompSize |-> lfh.uncompressedSize, data |-> r.v,
              readAt |-> r.readAt, pos |-> r.pos]

getFileContentsFromLocalFileHeader(zstdLoaded, file, pos, lfh) ==
    LET r == ReadPayload(file, pos, lfh)
    IN  IF r.kind = "raise" THEN r
        ELSE IF lfh.compressionMethod = ZIP_COMPRESSION_METHOD_STORE
        THEN [kind |-> "bytes", v |-> r.v, readAt |-> r.readAt, pos |-> r.pos]
        ELSE LET u == decompressFileContents(zstdLoaded, lfh.compressionMethod,
                                             lfh.uncompressedSize, r.v)
             IN  IF u.kind = "raise"
                 THEN RaiseAt(IF u.err = "NotImplementedError"
                              THEN "NotImplementedError" ELSE "Exception", r.pos)
                 ELSE [kind |-> "bytes", v |-> u.v, readAt |-> r.readAt, pos |-> r.pos]

\* a walk that looks at the first tuple only
Zip64WalkFirstOnly(file, pos, cde, currentPos) ==
    IF ~(currentPos < cde.extraFieldLength) THEN [kind |-> "None", pos |-> pos]
    ELSE LET head == PySlice(cde.extraField, currentPos, currentPos + 4)
             quad == PySlice(cde.extraField, currentPos + 4, currentPos + 12)
         IN  IF Len(head) # 4 THEN RaiseAt("struct.error", pos)
             ELSE IF FromLE(PySlice(head, 0, 2)) = 1 /\ FromLE(PySlice(head, 2, 4)) = 8
             THEN IF Len(quad) # 8 THEN RaiseAt("struct.error", pos)
                  ELSE getLocalFileHeaderAtOffset(file, FromLE(quad))
             ELSE [kind |-> "None", pos |-> pos]

\* the walk over the extra field's (tag, size, payload) tuples
RECURSIVE Zip64Walk(_, _, _, _)
Zip64Walk(file, pos, cde, currentPos) ==
    IF ~(currentPos < cde.extraFieldLength) THEN [kind |-> "None", pos |-> pos]
    ELSE LET head == PySlice(cde.extraField, currentPos, currentPos + 4)
             quad == PySlice(cde.extraField, currentPos + 4, currentPos + 12)
         IN  IF Len(head) # 4 THEN RaiseAt("struct.error", pos)
             ELSE IF FromLE(PySlice(head, 0, 2)) = 1 /\ FromLE(PySlice(head, 2, 4)) = 8
             THEN IF Len(quad) # 8 THEN RaiseAt("struct.error", pos)
                  ELSE getLocalFileHeaderAtOffset(file, FromLE(quad))
             ELSE Zip64Walk(file, pos, cde, currentPos + 4 + FromLE(PySlice(head, 2, 4)))

\* cde is what getLastEntryInCentralDirectory returned: a dictionary or None
getLocalFileHeaderFromCentralDirectoryEntry(file, pos, cde) ==
    IF cde.kind = "None" THEN RaiseAt("AttributeError", pos)
    ELSE IF cde.relativeOffsetOfLocalHeader = <<255, 255, 255, 255>>
    THEN Zip64Walk(file, pos, cde, 0)
    ELSE getLocalFileHeaderAtOffset(file, FromLE(cde.relativeOffsetOfLocalHeader))

\* the test on start and end and the parse of buffer[start:end], buffer being
\* the last 320 bytes of the file
TailEntry(file, start, end) ==
    IF start < end /\ start # end
    THEN LET e == parseCentralDirectoryEntry(
                      PySlice(PySlice(file, Len(file) - TailWindow, Len(file)), start, end))
         IN  IF e.kind = "raise" THEN RaiseAt(e.err, Len(file))
             ELSE [cde |-> e, kind |-> "ok", pos |-> Len(file), start |-> start, end |-> end]
    ELSE [cde |-> NoneVal, kind |-> "ok", pos |-> Len(file), start |-> start, end |-> end]

\* file.seek(filesize - 320) raises OSError on a negative position; start and
\* end are the two rfind results, each computed once
getLastEntryInCentralDirectory(file) ==
    IF Len(file) - TailWindow < 0 THEN RaiseAt("OSError", 0)
    ELSE CHOOSE r \in
            { TailEntry(file, start, end) :
                start \in {RFind(file, Len(file) - TailWindow, STARTOFCENTRALDIRECTORY)},
                end \in {RFind(file, Len(file) - TailWindow, ENDOFCENTRALDIRECTORY)} } : TRUE

\* Index(indexBytes): memoryview.cast("Q") takes a multiple of 8 bytes
readIndex(indexBytes) ==
    IF Len(indexBytes) % 8 # 0 THEN Raise("TypeError")
    ELSE [kind |-> "index", v |-> indexBytes]

(***************************************************************************)
(* The files the model opens                                               *)
(***************************************************************************)
DataX == Repeat(120, 300)
MemberA == Member(NameA, 0, 300, DataX)
MemberSmallA == Member(NameA, 0, 1, <<120>>)
MemberSecondA == Member(NameA, 0, 2, <<121, 121>>)
MemberJson == Member(NameJson, 0, 2, <<123, 125>>)
MemberDir == Member(NameDir, 0, 0, <<>>)
MemberLong == Member(NameLong, 0, 5, <<104, 101, 108, 108, 111>>)
MemberEncrypted == [Member(NameQ0, 0, 1, <<120>>) EXCEPT !.flag_bits = 1]
\* "hi PK\x01\x02 there": a comment that holds the central directory signature
CommentWithSignature == <<104, 105, 32>> \o STARTOFCENTRALDIRECTORY \o <<32, 116, 104, 101, 114, 101>>

ZipContainer(prefix, members, comment) ==
    [exists |-> TRUE, isZip |-> TRUE, bytes |-> ZipBytes(prefix, members, comment),
     infolist |-> ZipInfolist(prefix, members)]

\* a 3tz whose index names each file's offset as the other's
Misaligned3tz ==
    LET files == <<MemberA, MemberJson>>
        info == ZipInfolist(<<>>, files)
        blob == PackIndex(<<[IndexEntryOf(info[1]) EXCEPT !.off = ToLE(info[2].header_offset, 8)],
                            [IndexEntryOf(info[2]) EXCEPT !.off = ToLE(info[1].header_offset, 8)]>>)
    IN  ZipContainer(<<>>, Append(files, Member(NameIndex, 0, Len(blob), blob)), <<>>)

Containers ==
    << ZipContainer(<<>>, With3tzIndex(<<>>, <<MemberA, MemberJson>>), <<>>),
       ZipContainer(<<>>, With3tzIndex(<<>>, <<MemberSmallA>>), <<>>),
       ZipContainer(<<>>, With3tzIndex(<<>>, <<MemberA, MemberLong>>), <<>>),
       ZipContainer(<<>>, With3tzIndex(<<>>, <<MemberA>>), CommentWithSignature),
       [exists |-> TRUE, isZip |-> FALSE, bytes |-> Repeat(0, 320), infolist |-> <<>>],
       ZipContainer(<<>>, <<MemberJson, MemberDir, MemberA>>, <<>>),
       ZipContainer(Repeat(0, 200), With3tzIndex(Repeat(0, 200), <<>>), <<>>),
       Misaligned3tz,
       ZipContainer(<<>>, <<MemberA, MemberEncrypted>>, <<>>),
       [exists |-> FALSE, isZip |-> FALSE, bytes |-> <<>>, infolist |-> <<>>],
       ZipContainer(<<>>, <<MemberA, MemberJson, MemberSecondA>>, <<>>),
       ZipContainer(<<>>, <<>>, Repeat(0, 298)),
       ZipContainer(Repeat(0, 219), <<MemberSmallA>>, <<>>) >>


(***************************************************************************)
(* Single3tzArchive (3ts.py:334-377) and getSingleFile                     *)
(* (archive3tz.py:242-263).  fs is the file at containerpath: [exists,     *)
(* isZip, bytes, infolist], infolist being zipfile's view of it.  A handle *)
(* is the object's attributes: file (hasFile, pos), cde (hasCde, cde) and  *)
(* index (hasIndex, index); an attribute __init__ never assigned is        *)
(* absent.  "last" records the last operation: "ret" is what the caller    *)
(* got; "cde", "lfh" and "read" are the trailing entry, its header and the *)
(* index content read from it; "lfh2" and "payload" the header parsed at   *)
(* the looked-up offset and the content read after it; "swallowed" is the  *)
(* exception __init__ logged instead of raising.                           *)
(* Each step of an operation is computed once (\E x \in {e}) and used by   *)
(* the steps after it, as the code's local variables are.                  *)
(***************************************************************************)
Absent == [kind |-> "absent"]

NewHandle == [hasFile |-> FALSE, pos |-> 0, hasCde |-> FALSE, cde |-> NoneVal,
              hasIndex |-> FALSE, index |-> <<>>]

Outcome(op, path, ret, swallowed, cde, lfh, read, lfh2, payload) ==
    [op |-> op, path |-> path, ret |-> ret, swallowed |-> swallowed,
     cde |-> cde, lfh |-> lfh, read |-> read, lfh2 |-> lfh2, payload |-> payload]

NoOutcome ==
    Outcome("none", <<>>, NoneVal, "none", Absent, Absent, Absent, Absent, Absent)

FileContents(raw) ==
    [kind |-> "FileContents", data |-> raw.data, compMethod |-> raw.compMethod,
     uncompSize |-> raw.uncompSize]

FilePaths == {NameA, NameJson, NameDir, NameLong, NameQ0, NameQ2}

\* zipfile.ZipFile(containerpath) followed by buildIndex's loop
buildIndexOfPath(c) ==
    IF ~c.isZip THEN Raise("BadZipFile") ELSE buildIndex(c.infolist)

\* the steps the two openers share: the trailing entry, its header, the index
TailOf(c) ==
    IF c.exists THEN getLastEntryInCentralDirectory(c.bytes) ELSE Absent

HeaderOf(c, tail) ==
    IF tail.kind = "ok"
    THEN getLocalFileHeaderFromCentralDirectoryEntry(c.bytes, tail.pos, tail.cde)
    ELSE Absent

IndexContentOf(zstdLoaded, c, lfh) ==
    IF lfh.kind = "lfh" /\ lfh.filename = NameIndex
    THEN getFileContentsFromLocalFileHeader(zstdLoaded, c.bytes, lfh.pos, lfh)
    ELSE Absent

IndexOf(indexContent) ==
    IF indexContent.kind = "bytes" THEN readIndex(indexContent.v) ELSE Absent

\* the attributes __init__ has assigned when it returns, from its steps
InitHandle(c, tail, lfh, indexContent, index, built) ==
    IF ~c.exists THEN NewHandle
    ELSE IF tail.kind = "raise" THEN [NewHandle EXCEPT !.hasFile = TRUE, !.pos = tail.pos]
    ELSE LET h1 == [NewHandle EXCEPT !.hasFile = TRUE, !.pos = tail.pos,
                                     !.hasCde = TRUE, !.cde = tail.cde]
         IN  IF lfh.kind = "raise" THEN [h1 EXCEPT !.pos = lfh.pos]
             ELSE IF lfh.kind = "None" THEN h1
             ELSE IF lfh.filename = NameIndex
             THEN IF indexContent.kind = "raise" \/ index.kind = "raise"
                  THEN [h1 EXCEPT !.pos = indexContent.pos]
                  ELSE [h1 EXCEPT !.pos = indexContent.pos, !.hasIndex = TRUE,
                                  !.index = index.v]
             ELSE IF built.kind = "raise" THEN [h1 EXCEPT !.pos = lfh.pos]
             ELSE [h1 EXCEPT !.pos = lfh.pos, !.hasIndex = TRUE,
                             !.index = readIndex(built.v).v]

\* the exception the except clause of __init__ logged, "none" when none
InitSwallowed(c, tail, lfh, indexContent, index) ==
    IF ~c.exists THEN "FileNotFoundError"
    ELSE IF tail.kind = "raise" THEN tail.err
    ELSE IF lfh.kind = "raise" THEN lfh.err
    ELSE IF lfh.kind = "None" THEN "AttributeError"
    ELSE IF indexContent.kind = "raise" THEN indexContent.err
    ELSE IF index.kind = "raise" THEN index.err
    ELSE "none"

\* Single3tzArchive(containerpath): __init__, its try/except included
Open ==
    /\ ~opened /\ ~exited
    /\ \E tail \in {TailOf(fs)} :
       \E lfh \in {HeaderOf(fs, tail)} :
       \E indexContent \in {IndexContentOf(zstd, fs, lfh)} :
       \E index \in {IndexOf(indexContent)} :
       \E built \in {IF lfh.kind = "lfh" /\ lfh.filename # NameIndex
                     THEN buildIndexOfPath(fs) ELSE Absent} :
          /\ handle' = InitHandle(fs, tail, lfh, indexContent, index, built)
          /\ exited' = (built.kind = "raise")
          /\ opened' = (built.kind # "raise")
          /\ last' = Outcome("open", <<>>,
                             IF built.kind = "raise" THEN Raise("SystemExit") ELSE NoneVal,
                             InitSwallowed(fs, tail, lfh, indexContent, index),
                             tail, lfh, indexContent, Absent, Absent)
    /\ UNCHANGED <<fs, zstd, lookupVars, codecVars, harnessVars>>

\* handle.getFile(path); "not self.index" is len(self.index) == 0
GetFile(path) ==
    /\ opened /\ ~exited
    /\ \E offset \in {IF ~handle.hasIndex THEN Raise("AttributeError")
                      ELSE IF IndexLen(handle.index) = 0 THEN NoneVal
                      ELSE findLocalFileHeaderOffsetInIndex(handle.index, path)} :
       \E lfh2 \in {IF offset.kind = "int"
                    THEN getLocalFileHeaderAtOffset(fs.bytes, offset.v) ELSE Absent} :
       \E raw \in {IF lfh2.kind = "lfh" /\ lfh2.filename = path
                   THEN getRawFileContentsFromLocalFileHeader(fs.bytes, lfh2.pos, lfh2)
                   ELSE Absent} :
          /\ handle' = [handle EXCEPT !.pos = IF raw.kind # "absent" THEN raw.pos
                                              ELSE IF lfh2.kind # "absent" THEN lfh2.pos
                                              ELSE @]
          /\ last' = Outcome("getFile", path,
                             IF offset.kind # "int" THEN offset
                             ELSE IF lfh2.kind = "raise" THEN Raise(lfh2.err)
                             ELSE IF lfh2.filename # path THEN NoneVal
                             ELSE IF raw.kind = "raise" THEN Raise(raw.err)
                             ELSE FileContents(raw),
                             "none", Absent, Absent, Absent, lfh2, raw)
    /\ UNCHANGED <<fs, zstd, opened, exited, lookupVars, codecVars, harnessVars>>

\* archive.getSingleFile(containerpath, filepath), on a file object of its own
GetSingleFile(filepath) ==
    /\ ~exited
    /\ \E tail \in {TailOf(fs)} :
       \E lfh \in {HeaderOf(fs, tail)} :
       \E indexContent \in {IndexContentOf(zstd, fs, lfh)} :
       \E index \in {IndexOf(indexContent)} :
       \E offset \in {IF index.kind = "index"
                      THEN findLocalFileHeaderOffsetInIndex(index.v, filepath)
                      ELSE Absent} :
       \E lfh2 \in {IF offset.kind = "int"
                    THEN getLocalFileHeaderAtOffset(fs.bytes, offset.v) ELSE Absent} :
       \E contents \in {IF lfh2.kind = "lfh" /\ lfh2.filename = filepath
                        THEN getFileContentsFromLocalFileHeader(zstd, fs.bytes, lfh2.pos, lfh2)
                        ELSE Absent} :
          last' = Outcome("getSingleFile", filepath,
                          IF ~fs.exists THEN Raise("FileNotFoundError")
                          ELSE IF tail.kind = "raise" THEN Raise(tail.err)
                          ELSE IF lfh.kind = "raise" THEN Raise(lfh.err)
                          ELSE IF lfh.kind = "None" THEN Raise("AttributeError")
                          ELSE IF lfh.filename # NameIndex THEN NoneVal
                          ELSE IF indexContent.kind = "raise" THEN Raise(indexContent.err)
                          ELSE IF index.kind = "raise" THEN index
                          ELSE IF offset.kind # "int" THEN offset
                          ELSE IF lfh2.kind = "raise" THEN Raise(lfh2.err)
                          ELSE IF lfh2.filename # filepath THEN NoneVal
                          ELSE IF contents.kind = "raise" THEN Raise(contents.err)
                          ELSE [kind |-> "bytes", v |-> contents.v],
                          "none", tail, lfh, indexContent, lfh2, contents)
    /\ UNCHANGED <<fs, zstd, handle, opened, exited, lookupVars, codecVars, harnessVars>>

ArchIdle ==
    /\ fs = [exists |-> FALSE, isZip |-> FALSE, bytes |-> <<>>, infolist |-> <<>>]
    /\ zstd = TRUE
    /\ handle = NewHandle
    /\ opened = FALSE
    /\ exited = FALSE
    /\ last = NoOutcome

NotCalled == [kind |-> "not called"]

CodecIdle ==
    /\ dMethod = ZIP_COMPRESSION_METHOD_STORE
    /\ dSize = 0
    /\ dBytes = <<>>
    /\ dOut = NotCalled

Zip64Idle ==
    /\ zRel = <<>>
    /\ zTuples = <<>>
    /\ zCde = NotCalled
    /\ zOut = NotCalled
    /\ zpc = "idle"

BuildIdle ==
    /\ bItems = <<>>
    /\ bOut = NotCalled

GlbIdle ==
    /\ gBuffer = <<>>
    /\ gOut = NotCalled

SubtreeIdle ==
    /\ uBuffer = <<>>
    /\ uOut = NotCalled

NormIdle ==
    /\ nType = "UINT8"
    /\ nValue = [neg |-> FALSE, mag |-> <<0, 0, 0, 0, 0, 0, 0, 0>>]
    /\ nOut = NotCalled

MetaIdle ==
    /\ docOld = Absent
    /\ docNew = Absent
    /\ outOld = NotCalled
    /\ outNew = NotCalled

LoadIdle ==
    /\ lFile = <<>>
    /\ lDoc = <<>>
    /\ lpc = "idle"
    /\ lBuffers = <<>>
    /\ lLoads = 0
    /\ lOut = NotCalled

ServeIdle ==
    /\ hKind = "none"
    /\ hFiles = <<>>
    /\ hArchives = <<>>
    /\ hOpened = <<>>
    /\ hRequest = NoneVal
    /\ hResponse = NotCalled
    /\ hExited = FALSE

FetchIdle ==
    /\ tFile = <<>>
    /\ tHandle = <<>>
    /\ tFetch = <<>>
    /\ tCount = <<>>

\* every group of harnessVars other than g is out of use, and stays so
HarnessIdle(g) ==
    /\ IF g = "zip64" THEN TRUE ELSE Zip64Idle
    /\ IF g = "build" THEN TRUE ELSE BuildIdle
    /\ IF g = "glb" THEN TRUE ELSE GlbIdle
    /\ IF g = "subtree" THEN TRUE ELSE SubtreeIdle
    /\ IF g = "norm" THEN TRUE ELSE NormIdle
    /\ IF g = "meta" THEN TRUE ELSE MetaIdle
    /\ IF g = "load" THEN TRUE ELSE LoadIdle
    /\ IF g = "serve" THEN TRUE ELSE ServeIdle
    /\ IF g = "fetch" THEN TRUE ELSE FetchIdle

HarnessStill(g) ==
    /\ IF g = "zip64" THEN TRUE ELSE UNCHANGED zip64Vars
    /\ IF g = "build" THEN TRUE ELSE UNCHANGED buildVars
    /\ IF g = "glb" THEN TRUE ELSE UNCHANGED glbVars
    /\ IF g = "subtree" THEN TRUE ELSE UNCHANGED subtreeVars
    /\ IF g = "norm" THEN TRUE ELSE UNCHANGED normVars
    /\ IF g = "meta" THEN TRUE ELSE UNCHANGED metaVars
    /\ IF g = "load" THEN TRUE ELSE UNCHANGED loadVars
    /\ IF g = "serve" THEN TRUE ELSE UNCHANGED serveVars
    /\ IF g = "fetch" THEN TRUE ELSE UNCHANGED fetchVars

LookupIdle ==
    /\ sIndex = <<>>
    /\ sPath = <<>>
    /\ low = 0
    /\ high = 0
    /\ probed = <<>>
    /\ sRet = Running
    /\ spc = "idle"

Init ==
    /\ fs \in {Containers[i] : i \in 1..Len(Containers)}
    /\ zstd \in BOOLEAN
    /\ handle = NewHandle
    /\ opened = FALSE
    /\ exited = FALSE
    /\ last = NoOutcome
    /\ LookupIdle
    /\ CodecIdle
    /\ HarnessIdle("none")

Next ==
    \/ Open
    \/ \E path \in FilePaths : GetFile(path)
    \/ \E path \in FilePaths : GetSingleFile(path)

Spec == Init /\ [][Next]_vars

(***************************************************************************)
(* The search, step by step, on index blobs of any content                 *)
(***************************************************************************)
MaxIndexEntries == 3

KeyA == md5halves(NameA)
KeyJson == md5halves(NameJson)
\* keys that share KeyA's lo and differ in hi (the tiebreak of md5LessThan)
KeyTie1 == [lo |-> KeyA.lo, hi |-> ToLE(1, 8)]
KeyTie2 == [lo |-> KeyA.lo, hi |-> ToLE(2, 8)]

CandidateEntries ==
    { [lo |-> KeyA.lo, hi |-> KeyA.hi, off |-> ToLE(0, 8)],
      [lo |-> KeyA.lo, hi |-> KeyA.hi, off |-> ToLE(331, 8)],
      [lo |-> KeyTie1.lo, hi |-> KeyTie1.hi, off |-> ToLE(331, 8)],
      [lo |-> KeyTie2.lo, hi |-> KeyTie2.hi, off |-> ToLE(331, 8)],
      [lo |-> KeyJson.lo, hi |-> KeyJson.hi, off |-> ToLE(331, 8)] }

IndexBlobs ==
    { PackIndex(es) : es \in UNION { [1..n -> CandidateEntries] : n \in 0..MaxIndexEntries } }

QueryPaths == {NameA, NameJson, NameQ0, NameQ2}

LookupInit ==
    /\ sIndex \in IndexBlobs
    /\ sPath \in QueryPaths
    /\ low = 0
    /\ high = 0
    /\ probed = <<>>
    /\ sRet = Running
    /\ spc = "start"
    /\ ArchIdle
    /\ CodecIdle
    /\ HarnessIdle("none")

\* low = 0; high = len(index)
SearchBegin ==
    /\ spc = "start"
    /\ low' = SearchStart(sIndex).low
    /\ high' = SearchStart(sIndex).high
    /\ probed' = <<>>
    /\ spc' = "loop"
    /\ UNCHANGED <<sIndex, sPath, sRet, archVars, codecVars, harnessVars>>

\* one test of "while low <= high" and one pass through the loop body
SearchLoop ==
    /\ spc = "loop"
    /\ \E st \in { SearchIter(sIndex, md5halves(sPath),
                              [low |-> low, high |-> high, probed |-> probed,
                               ret |-> Running]) } :
          /\ low' = st.low
          /\ high' = st.high
          /\ probed' = st.probed
          /\ sRet' = st.ret
          /\ spc' = IF st.ret = Running THEN "loop" ELSE "done"
    /\ UNCHANGED <<sIndex, sPath, archVars, codecVars, harnessVars>>

LookupNext == SearchBegin \/ SearchLoop

SpecLookup == LookupInit /\ [][LookupNext]_vars

(***************************************************************************)
(* One call of decompressFileContents, on inputs of any content            *)
(***************************************************************************)
MaxExpectedSize == 3
MaxStreamLen == 2

\* the four methods the code names and one it does not (12, bzip2)
CompressionMethods ==
    {ZIP_COMPRESSION_METHOD_STORE, ZIP_COMPRESSION_METHOD_DEFLATE,
     ZIP_COMPRESSION_METHOD_ZSTD, ZIP_COMPRESSION_METHOD_ZSTD_OLD, <<12, 0>>}

StreamBytes == {0, 1, 2, 120}

CodecInit ==
    /\ dMethod \in CompressionMethods
    /\ dSize \in 0..MaxExpectedSize
    /\ dBytes \in UNION { [1..n -> StreamBytes] : n \in 0..MaxStreamLen }
    /\ dOut = NotCalled
    /\ fs = [exists |-> FALSE, isZip |-> FALSE, bytes |-> <<>>, infolist |-> <<>>]
    /\ zstd \in BOOLEAN
    /\ handle = NewHandle
    /\ opened = FALSE
    /\ exited = FALSE
    /\ last = NoOutcome
    /\ LookupIdle
    /\ HarnessIdle("none")

Decompress ==
    /\ dOut = NotCalled
    /\ dOut' = decompressFileContents(zstd, dMethod, dSize, dBytes)
    /\ UNCHANGED <<dMethod, dSize, dBytes, lookupVars, archVars, harnessVars>>

CodecNext == Decompress

SpecCodec == CodecInit /\ [][CodecNext]_vars

(***************************************************************************)
(* One central directory entry, parsed and resolved to its local file      *)
(* header (archive3tz.py:35-60, 152-168).  The entry's extra field is a    *)
(* sequence of tuples [tag, size, payload, head]: head is the number of    *)
(* bytes of the 4-byte (tag, size) header that are present, 4 unless the   *)
(* extra field ends inside it; a tuple that is cut short, or whose size    *)
(* runs past the end of the field, is the last one.                        *)
(***************************************************************************)
MaxExtraTuples == 2

ExtraTuple(tag, size, payload) ==
    [tag |-> tag, size |-> size, payload |-> payload, head |-> 4]

WellFormed(t) == t.head = 4 /\ Len(t.payload) = t.size

WholeTuples ==
    { ExtraTuple(1, 8, ToLE(331, 8)),
      ExtraTuple(1, 8, ToLE(0, 8)),
      ExtraTuple(21589, 5, <<3, 0, 0, 0, 0>>),
      ExtraTuple(1, 16, Repeat(0, 16)),
      ExtraTuple(7, 0, <<>>) }

CutTuples ==
    { ExtraTuple(1, 8, <<75, 1, 0, 0>>),
      [ExtraTuple(1, 8, <<>>) EXCEPT !.head = 2],
      ExtraTuple(9, 40, <<0, 0>>) }

ExtraFields ==
    { ts \in UNION { [1..n -> WholeTuples \cup CutTuples] : n \in 0..MaxExtraTuples } :
        \A i \in 1..Len(ts) - 1 : WellFormed(ts[i]) }

TupleBytes(t) == SubSeq(ToLE(t.tag, 2) \o ToLE(t.size, 2), 1, t.head) \o t.payload

ExtraBytes(ts) == Concat([i \in 1..Len(ts) |-> TupleBytes(ts[i])])

\* the bytes of a central directory entry named "a" with this offset field
\* and this extra field
EntryBytes(rel, extra) ==
    STARTOFCENTRALDIRECTORY \o Repeat(0, 24)
    \o ToLE(Len(NameA), 2) \o ToLE(Len(extra), 2) \o ToLE(0, 2)
    \o Repeat(0, 8) \o rel \o NameA \o extra

Zip64Init ==
    /\ zRel \in {<<255, 255, 255, 255>>, ToLE(0, 4), ToLE(331, 4)}
    /\ zTuples \in ExtraFields
    /\ zCde = NotCalled
    /\ zOut = NotCalled
    /\ zpc = "bytes"
    /\ fs = ZipContainer(<<>>, <<MemberA, MemberJson>>, <<>>)
    /\ zstd = TRUE
    /\ handle = NewHandle
    /\ opened = FALSE
    /\ exited = FALSE
    /\ last = NoOutcome
    /\ LookupIdle
    /\ CodecIdle
    /\ HarnessIdle("zip64")

ParseEntry ==
    /\ zpc = "bytes"
    /\ zCde' = parseCentralDirectoryEntry(EntryBytes(zRel, ExtraBytes(zTuples)))
    /\ zpc' = "parsed"
    /\ UNCHANGED <<zRel, zTuples, zOut, lookupVars, archVars, codecVars>>
    /\ HarnessStill("zip64")

ResolveHeader ==
    /\ zpc = "parsed"
    /\ zOut' = getLocalFileHeaderFromCentralDirectoryEntry(fs.bytes, 0, zCde)
    /\ zpc' = "resolved"
    /\ UNCHANGED <<zRel, zTuples, zCde, lookupVars, archVars, codecVars>>
    /\ HarnessStill("zip64")

Zip64Next == ParseEntry \/ ResolveHeader

SpecZip64 == Zip64Init /\ [][Zip64Next]_vars

(***************************************************************************)
(* One call of buildIndex on a ZIP of any entries (index3tz.py:104-126)    *)
(***************************************************************************)
MaxZipItems == 2

ZipItem(name, flags, method, compressSize, fileSize) ==
    [filename |-> name, flag_bits |-> flags, compress_type |-> method,
     compress_size |-> compressSize, file_size |-> fileSize]

\* files, directories and index entries that the validation accepts, and ones
\* with a disallowed flag bit (0, 3, 5, 13), method (12) or size pair
CandidateItems ==
    { ZipItem(NameA, 0, 0, 5, 5),
      ZipItem(NameJson, 2048, 8, 3, 5),
      ZipItem(NameQ0, 0, 93, 3, 5),
      ZipItem(NameQ2, 0, 0, 0, 0),
      ZipItem(NameA, 1, 0, 5, 5),
      ZipItem(NameJson, 8, 8, 3, 5),
      ZipItem(NameQ0, 32, 93, 3, 5),
      ZipItem(NameQ2, 8192, 0, 0, 0),
      ZipItem(NameA, 9, 0, 5, 5),
      ZipItem(NameA, 0, 12, 5, 5),
      ZipItem(NameA, 0, 0, 0, 5),
      ZipItem(NameDir, 0, 0, 0, 0),
      ZipItem(NameDir, 8, 0, 0, 0),
      ZipItem(NameIndex, 0, 0, 24, 24),
      ZipItem(NameIndex, 0, 12, 24, 24) }

\* zipfile gives each entry the offset of its header; here 100 bytes apart
WithHeaderOffsets(items) ==
    [i \in 1..Len(items) |->
        [filename |-> items[i].filename, flag_bits |-> items[i].flag_bits,
         compress_type |-> items[i].compress_type,
         compress_size |-> items[i].compress_size, file_size |-> items[i].file_size,
         header_offset |-> 100 * (i - 1)]]

BuildInit ==
    /\ bItems \in UNION { [1..n -> CandidateItems] : n \in 0..MaxZipItems }
    /\ bOut = NotCalled
    /\ ArchIdle
    /\ LookupIdle
    /\ CodecIdle
    /\ HarnessIdle("build")

BuildIndex ==
    /\ bOut = NotCalled
    /\ bOut' = buildIndex(WithHeaderOffsets(bItems))
    /\ UNCHANGED <<bItems, lookupVars, archVars, codecVars>>
    /\ HarnessStill("build")

BuildNext == BuildIndex

SpecBuild == BuildInit /\ [][BuildNext]_vars

(***************************************************************************)
(* glbjson.getChunksFromBuffer (glbjson.py:59-78).  The header is          *)
(* struct.unpack('<iiiii', buffer[:20]): magic, version, total length,     *)
(* length and type of the first chunk.  Magic and chunk types are compared *)
(* as their 4 bytes; the lengths of the inputs stay below 2^31, where the  *)
(* signed and the unsigned reading of the 4 bytes agree.                   *)
(***************************************************************************)
GlbMagic == ToLE(1179937895, 4)
ChunkTypeJson == ToLE(1313821514, 4)
ChunkTypeBin == ToLE(5130562, 4)

getChunksFromBuffer(buffer) ==
    LET jsonLen == FromLE(PySlice(buffer, 12, 16))
        data == PySlice(buffer, 20 + jsonLen, Len(buffer))
    IN  IF Len(buffer) < 20 THEN Raise("struct.error")
        ELSE IF PySlice(buffer, 0, 4) # GlbMagic THEN Raise("Exception")
        ELSE IF PySlice(buffer, 4, 8) # ToLE(2, 4) THEN Raise("Exception")
        ELSE IF PySlice(buffer, 16, 20) # ChunkTypeJson THEN Raise("Exception")
        ELSE IF jsonLen = 0 THEN Raise("Exception")
        ELSE IF ~DecodeOk(PySlice(buffer, 20, 20 + jsonLen)) THEN Raise("UnicodeDecodeError")
        ELSE IF Len(data) > 8
        THEN IF PySlice(data, 4, 8) # ChunkTypeBin THEN Raise("Exception")
             ELSE [kind |-> "chunks", jsondata |-> PySlice(buffer, 20, 20 + jsonLen),
                   bindata |-> [kind |-> "bytes",
                                v |-> PySlice(data, 8, 8 + FromLE(PySlice(data, 0, 4)))]]
        ELSE [kind |-> "chunks", jsondata |-> PySlice(buffer, 20, 20 + jsonLen),
              bindata |-> NoneVal]

\* the bytes of a GLB: header, first chunk, and whatever follows it
GlbBytes(magic, version, chunkLen, chunkType, json, rest) ==
    magic \o ToLE(version, 4) \o ToLE(20 + Len(json) + Len(rest), 4)
    \o ToLE(chunkLen, 4) \o chunkType \o json \o rest

Chunk(len, type, payload) == ToLE(len, 4) \o type \o payload

JsonTexts == { <<123, 125>>, <<123, 125, 32, 32>> }

\* what follows the first chunk: nothing, a BIN chunk (whole, empty, cut), a
\* chunk of another type, a fragment shorter than a chunk header
MaxBinLen == 4

SecondChunks ==
    { <<>>, <<0, 0, 0>> }
    \cup { Chunk(n, ChunkTypeBin, Repeat(7, n)) : n \in 0..MaxBinLen }
    \cup { Chunk(MaxBinLen, ChunkTypeBin, <<7>>),
           Chunk(4, ToLE(1, 4), <<1, 2, 3, 4>>),
           Chunk(0, ToLE(1, 4), <<>>) }

\* the 4096-byte GLB with a 1024-byte JSON chunk and a BIN chunk to the end
Glb4096 ==
    GlbBytes(GlbMagic, 2, 1024, ChunkTypeJson, Repeat(32, 1024),
             Chunk(3044, ChunkTypeBin, Repeat(7, 3044)))

GlbInputs ==
    { GlbBytes(magic, version, IF empty THEN 0 ELSE Len(json), chunkType, json, rest) :
        magic \in {GlbMagic, ToLE(1, 4)}, version \in {1, 2},
        empty \in BOOLEAN, chunkType \in {ChunkTypeJson, ChunkTypeBin},
        json \in JsonTexts, rest \in SecondChunks }
    \cup { Glb4096, SubSeq(GlbMagic \o ToLE(2, 4), 1, 8) }

GlbInit ==
    /\ gBuffer \in GlbInputs
    /\ gOut = NotCalled
    /\ ArchIdle
    /\ LookupIdle
    /\ CodecIdle
    /\ HarnessIdle("glb")

GetGlbChunks ==
    /\ gOut = NotCalled
    /\ gOut' = getChunksFromBuffer(gBuffer)
    /\ UNCHANGED <<gBuffer, lookupVars, archVars, codecVars>>
    /\ HarnessStill("glb")

GlbNext == GetGlbChunks

SpecGlb == GlbInit /\ [][GlbNext]_vars

(***************************************************************************)
(* subtreejson.getChunksFromBuffer (subtreejson.py:38-56).  The header is  *)
(* struct.unpack('<iiQQ', buffer[:24]): magic, version, JSON byte length,  *)
(* binary byte length.  The magic is compared as its 4 bytes; the lengths  *)
(* of the inputs are small, so their 8 bytes are read whole.               *)
(***************************************************************************)
SubtreeMagic == ToLE(1952609651, 4)

getSubtreeChunksFromBuffer(buffer) ==
    LET jsonLen == FromLE(PySlice(buffer, 8, 16))
        binLen == FromLE(PySlice(buffer, 16, 24))
        jsondata == PySlice(buffer, 24, 24 + jsonLen)
    IN  IF Len(buffer) < 24 THEN Raise("struct.error")
        ELSE IF PySlice(buffer, 0, 4) # SubtreeMagic THEN Raise("ValueError")
        ELSE IF PySlice(buffer, 4, 8) # ToLE(1, 4) THEN Raise("ValueError")
        ELSE IF jsonLen = 0
        THEN [kind |-> "chunks", jsondata |-> NoneVal, bindata |-> NoneVal]
        ELSE IF ~DecodeOk(jsondata) THEN Raise("UnicodeDecodeError")
        ELSE IF binLen > 0
        THEN IF binLen # Len(buffer) - 24 - jsonLen THEN Raise("ValueError")
             ELSE [kind |-> "chunks", jsondata |-> [kind |-> "str", v |-> jsondata],
                   bindata |-> [kind |-> "bytes",
                                v |-> PySlice(buffer, 24 + jsonLen, Len(buffer))]]
        ELSE [kind |-> "chunks", jsondata |-> [kind |-> "str", v |-> jsondata],
              bindata |-> NoneVal]

\* the bytes of a subtree file: header, JSON, and whatever follows it
SubtreeBytes(magic, version, jsonLen, binLen, json, rest) ==
    magic \o ToLE(version, 4) \o ToLE(jsonLen, 8) \o ToLE(binLen, 8) \o json \o rest

MaxSubtreeBin == 2

SubtreeInputs ==
    { SubtreeBytes(magic, version, jsonLen, binLen, json, Repeat(7, n)) :
        magic \in {SubtreeMagic, ToLE(1, 4)}, version \in {1, 2},
        jsonLen \in {0, 2, 4}, binLen \in 0..MaxSubtreeBin,
        json \in JsonTexts, n \in 0..MaxSubtreeBin }
    \cup { SubSeq(SubtreeMagic \o ToLE(1, 4), 1, 8) }

SubtreeInit ==
    /\ uBuffer \in SubtreeInputs
    /\ uOut = NotCalled
    /\ ArchIdle
    /\ LookupIdle
    /\ CodecIdle
    /\ HarnessIdle("subtree")

GetSubtreeChunks ==
    /\ uOut = NotCalled
    /\ uOut' = getSubtreeChunksFromBuffer(uBuffer)
    /\ UNCHANGED <<uBuffer, lookupVars, archVars, codecVars>>
    /\ HarnessStill("subtree")

SubtreeNext == GetSubtreeChunks

SpecSubtree == SubtreeInit /\ [][SubtreeNext]_vars

(***************************************************************************)
(* gltf.denormalize (gltf.py:57-75).  A raw value is a sign and a          *)
(* magnitude, the magnitude held as 8 little-endian bytes so that the      *)
(* 64-bit types keep their width.  The quotient value / max is held        *)
(* exactly, as [neg, num, den]; the rounding of Python's float division is *)
(* monotone and max / max is 1.0, so it moves no quotient across -1, 0, 1. *)
(***************************************************************************)
UnsignedTypes == {"UINT8", "UINT16", "UINT32", "UINT64"}
SignedTypes == {"INT8", "INT16", "INT32", "INT64"}

\* bits of the type
TypeWidth(propType) ==
    CASE propType \in {"UINT8", "INT8"} -> 8
      [] propType \in {"UINT16", "INT16"} -> 16
      [] propType \in {"UINT32", "INT32"} -> 32
      [] propType \in {"UINT64", "INT64"} -> 64

\* 2^w - 1 and 2^(w-1) - 1, the divisors of lines 59-73, as 8 bytes
TypeMax(propType) ==
    LET n == TypeWidth(propType) \div 8
    IN  IF propType \in UnsignedTypes
        THEN Repeat(255, n) \o Repeat(0, 8 - n)
        ELSE Repeat(255, n - 1) \o <<127>> \o Repeat(0, 8 - n)

\* 2^(w-1), the magnitude of the most negative value of a signed type
TypeMinMagnitude(propType) ==
    LET n == TypeWidth(propType) \div 8
    IN  Repeat(0, n - 1) \o <<128>> \o Repeat(0, 8 - n)

Quotient(value, den) == [kind |-> "float", neg |-> value.neg, num |-> value.mag, den |-> den]

MinusOne(den) == [kind |-> "float", neg |-> TRUE, num |-> den, den |-> den]

\* denormalize without the max(..., -1.0) of lines 61, 65, 69, 73
denormalizeUnclamped(propType, value) ==
    IF propType \in UnsignedTypes \cup SignedTypes
    THEN Quotient(value, TypeMax(propType))
    ELSE Raise("ValueError")

denormalize(propType, value) ==
    IF propType \in UnsignedTypes THEN Quotient(value, TypeMax(propType))
    ELSE IF propType \in SignedTypes
    THEN IF value.neg /\ U64Less(TypeMax(propType), value.mag)
         THEN MinusOne(TypeMax(propType))
         ELSE Quotient(value, TypeMax(propType))
    ELSE Raise("ValueError")

\* how far from 0 and from the ends of the type's range the raw values go
EdgeWidth == 2

Magnitude(n) == ToLE(n, 8)

NearMax(propType) ==
    { [TypeMax(propType) EXCEPT ![1] = @ - k] : k \in 0..EdgeWidth }

\* the raw values struct.unpack can give for the type: every value of the
\* 8-bit types, the values near 0 and near both ends of the wider ones
RawValues(propType) ==
    LET small == IF TypeWidth(propType) = 8
                 THEN { Magnitude(n) : n \in 0..127 }
                 ELSE { Magnitude(n) : n \in 0..EdgeWidth }
        upper == IF propType = "UINT8" THEN { Magnitude(n) : n \in 128..255 } ELSE {}
    IN  { [neg |-> FALSE, mag |-> m] : m \in small \cup upper \cup NearMax(propType) }
        \cup IF propType \in SignedTypes
             THEN { [neg |-> TRUE, mag |-> m] :
                       m \in (small \ {Magnitude(0)}) \cup NearMax(propType)
                             \cup {TypeMinMagnitude(propType)} }
             ELSE {}

NormInit ==
    /\ nType \in UnsignedTypes \cup SignedTypes \cup {"FLOAT32"}
    /\ nValue \in IF nType = "FLOAT32" THEN {[neg |-> FALSE, mag |-> Magnitude(1)]}
                  ELSE RawValues(nType)
    /\ nOut = NotCalled
    /\ ArchIdle
    /\ LookupIdle
    /\ CodecIdle
    /\ HarnessIdle("norm")

Denormalize ==
    /\ nOut = NotCalled
    /\ nOut' = denormalize(nType, nValue)
    /\ UNCHANGED <<nType, nValue, lookupVars, archVars, codecVars>>
    /\ HarnessStill("norm")

NormNext == Denormalize

SpecNorm == NormInit /\ [][NormNext]_vars

(***************************************************************************)
(* The property decoder: GltfDocument.getFeatureTablePropertyValues and    *)
(* the readers it calls (gltf.py:42-103, 404-846).  A document is what the *)
(* call reads of it: mode, the table's "count", the class property and the *)
(* table property (records whose DOMAIN is the keys present in the JSON),  *)
(* the buffer views, the one buffer and the schema's enums.  Tuples and    *)
(* lists are both sequences; a str is its UTF-8 bytes.  Numbers are        *)
(* integers: the floats of the inputs are whole numbers below 2^20 and the *)
(* integers of the 32- and 64-bit types stay below 2^31 in magnitude.      *)
(***************************************************************************)
EXT_FEATURE_METADATA == "EXT_FEATURE_METADATA"
EXT_STRUCTURAL_METADATA == "EXT_STRUCTURAL_METADATA"

FloatTypes == {"FLOAT32", "FLOAT64"}
NumericTypes == UnsignedTypes \cup SignedTypes \cup FloatTypes

componentTypeSizeInBytes(propType) ==
    IF propType \in {"UINT8", "INT8"} THEN 1
    ELSE IF propType \in {"UINT16", "INT16"} THEN 2
    ELSE IF propType \in {"INT32", "UINT32", "FLOAT32"} THEN 4
    ELSE IF propType \in {"FLOAT64", "INT64", "UINT64"} THEN 8
    ELSE 1

getComponentCount(propType) ==
    IF propType = "VEC2" THEN 2
    ELSE IF propType = "VEC3" THEN 3
    ELSE IF propType = "VEC4" THEN 4
    ELSE IF propType = "MAT2" THEN 4
    ELSE IF propType = "MAT3" THEN 9
    ELSE IF propType = "MAT4" THEN 16
    ELSE 1

Values(s) == [kind |-> "values", v |-> s]

\* two's complement, struct formats b, h, i, q
SignedFromLE(b) ==
    IF b[Len(b)] >= 128 THEN 0 - (FromLE([i \in 1..Len(b) |-> 255 - b[i]]) + 1)
    ELSE FromLE(b)

SignedToLE(v, w) ==
    IF v < 0 THEN [i \in 1..w |-> 255 - ToLE(0 - v - 1, w)[i]] ELSE ToLE(v, w)

\* IEEE 754 binary32 and binary64 of a whole number, struct formats f and d
Float32FromLE(b) ==
    LET exp == (b[4] % 128) * 2 + b[3] \div 128
        m == 8388608 + (b[3] % 128) * 65536 + b[2] * 256 + b[1]
        mag == IF exp = 0 THEN 0 ELSE m \div (2 ^ (150 - exp))
    IN  IF b[4] >= 128 THEN 0 - mag ELSE mag

Float64FromLE(b) ==
    LET exp == (b[8] % 128) * 16 + b[7] \div 16
        m == 1048576 + (b[7] % 16) * 65536 + b[6] * 256 + b[5]
        mag == IF exp = 0 THEN 0 ELSE m \div (2 ^ (1043 - exp))
    IN  IF b[8] >= 128 THEN 0 - mag ELSE mag

Abs(v) == IF v < 0 THEN 0 - v ELSE v

Log2(n) == CHOOSE e \in 0..20 : 2 ^ e <= n /\ n < 2 ^ (e + 1)

Float32ToLE(v) ==
    LET e == Log2(Abs(v))
        bits == IF v = 0 THEN ToLE(0, 4)
                ELSE ToLE((127 + e) * 8388608 + (Abs(v) - 2 ^ e) * 2 ^ (23 - e), 4)
    IN  IF v < 0 THEN [bits EXCEPT ![4] = @ + 128] ELSE bits

Float64ToLE(v) ==
    LET e == Log2(Abs(v))
        bits == IF v = 0 THEN ToLE(0, 4)
                ELSE ToLE((1023 + e) * 1048576 + (Abs(v) - 2 ^ e) * 2 ^ (20 - e), 4)
    IN  ToLE(0, 4) \o (IF v < 0 THEN [bits EXCEPT ![4] = @ + 128] ELSE bits)

\* struct.unpack of one value of the type
UnpackValue(propType, b) ==
    IF propType \in UnsignedTypes THEN FromLE(b)
    ELSE IF propType \in SignedTypes THEN SignedFromLE(b)
    ELSE IF propType = "FLOAT32" THEN Float32FromLE(b)
    ELSE Float64FromLE(b)

\* struct.pack of one value of the type
PackValue(propType, v) ==
    IF propType \in UnsignedTypes \cup SignedTypes
    THEN SignedToLE(v, componentTypeSizeInBytes(propType))
    ELSE IF propType = "FLOAT32" THEN Float32ToLE(v)
    ELSE Float64ToLE(v)

\* the first exception of a loop over rows, or the rows
Collect(rows) ==
    LET bad == {i \in 1..Len(rows) : rows[i].kind = "raise"}
    IN  IF bad # {} THEN rows[CHOOSE i \in bad : \A j \in bad : i <= j]
        ELSE Values([i \in 1..Len(rows) |-> rows[i].v])

readScalarValues(propType, count, data) ==
    LET size == componentTypeSizeInBytes(propType)
    IN  IF propType \notin NumericTypes THEN Raise("ValueError")
        ELSE IF Len(data) # count * size THEN Raise("struct.error")
        ELSE Values([i \in 1..count |->
                        UnpackValue(propType, PySlice(data, (i - 1) * size, i * size))])

readFixedSizeArrayValues(componentType, arrayCount, componentCount, data) ==
    LET elementSize == componentTypeSizeInBytes(componentType) * componentCount
    IN  IF elementSize = 0 THEN Raise("ZeroDivisionError")
        ELSE IF Len(data) < arrayCount * elementSize THEN Raise("Exception")
        ELSE IF componentType \notin NumericTypes THEN Values(<<>>)
        ELSE Values([i \in 1..arrayCount |->
                        readScalarValues(componentType, componentCount,
                            PySlice(data, (i - 1) * elementSize, i * elementSize)).v])

\* rawbytes.decode("utf8")
DecodeUtf8(b) == IF DecodeOk(b) THEN Values(b) ELSE Raise("UnicodeDecodeError")

\* one row of a dynamic array of strings (lines 498-503); offsets are 0-based
StringRow(arrayOffsets, stringOffsets, data, i) ==
    LET first == arrayOffsets[i]
        numStrings == arrayOffsets[i + 1] - arrayOffsets[i]
    IN  IF \E j \in 0..(numStrings - 1) :
               first + j + 1 \notin DOMAIN stringOffsets \/ first + j + 2 \notin DOMAIN stringOffsets
        THEN Raise("IndexError")
        ELSE Collect([j \in 1..Max(numStrings, 0) |->
                         DecodeUtf8(PySlice(data, stringOffsets[first + j],
                                            stringOffsets[first + j + 1]))])

NoComponentType == "<None>"

\* arrayOffsets is a sequence; stringOffsets is None or Values of a sequence

readDynamicSizeArrayValues(propType, componentType, arrayOffsets, stringOffsets, data) ==
    Collect([i \in 1..(Len(arrayOffsets) - 1) |->
        IF propType = "STRING"
        THEN IF stringOffsets.kind = "None" THEN Raise("ValueError")
             ELSE StringRow(arrayOffsets, stringOffsets.v, data, i)
        ELSE LET rawbytes == PySlice(data, arrayOffsets[i], arrayOffsets[i + 1])
             IN  readScalarValues(componentType,
                                  Len(rawbytes) \div componentTypeSizeInBytes(componentType),
                                  rawbytes)])

Has(r, key) == key \in DOMAIN r

\* compatMap of lines 529-540
compatMap(mode, key) ==
    IF mode = EXT_FEATURE_METADATA
    THEN CASE key = "bufferView" -> "bufferView"
           [] key = "stringOffsetBufferView" -> "stringOffsetBufferView"
           [] key = "arrayOffsetBufferView" -> "stringOffsetBufferView"
           [] key = "componentCount" -> "componentCount"
    ELSE CASE key = "bufferView" -> "values"
           [] key = "stringOffsetBufferView" -> "stringOffsets"
           [] key = "arrayOffsetBufferView" -> "arrayOffsets"
           [] key = "componentCount" -> "count"

\* self.doc["bufferViews"][index]
ViewAt(doc, index) == doc.bufferViews[index + 1]

\* view["byteOffset"] if "byteOffset" in view else 0 (lines 555-557, 649-651)
ByteOffsetOrZero(view) == IF Has(view, "byteOffset") THEN view.byteOffset ELSE 0

\* value as the sign and magnitude denormalize works on
SignMagnitude(v) == [neg |-> v < 0, mag |-> ToLE(Abs(v), 8)]

\* offset + scale * value; with denormalizeValue the product is held as its
\* terms, the quotient being exact
applyOffsetScale(propType, value, offset, scale, denormalizeValue) ==
    IF denormalizeValue
    THEN LET q == denormalize(propType, SignMagnitude(value))
         IN  IF q.kind = "raise" THEN q
             ELSE Values([kind |-> "sum", offset |-> offset, scale |-> scale, x |-> q])
    ELSE Values(offset + scale * value)

\* lines 620-640 and 708-728: the transform of the rows of an array property
TransformRows(cp, componentType, values) ==
    LET offset == IF Has(cp, "offset") THEN cp.offset ELSE 0
        scale == IF Has(cp, "scale") THEN cp.scale ELSE 1
        denorm == IF Has(cp, "normalized") THEN cp.normalized ELSE FALSE
    IN  IF values.kind = "raise" \/ componentType \in {"STRING", "BOOLEAN"} THEN values
        ELSE IF offset # 0 \/ scale # 1 \/ denorm # FALSE
        THEN Collect([i \in 1..Len(values.v) |->
                 Collect([j \in 1..Len(values.v[i]) |->
                     applyOffsetScale(componentType, values.v[i][j], offset, scale, denorm)])])
        ELSE values

\* bit k of the packed bytes, least significant bit first (lines 581-585, 737-740)
BitAt(byteValues, k) == Bit(byteValues[k \div 8 + 1], k % 8) = 1

\* valueToEnumMap[itemValue] (lines 595-597, 754-756)
EnumName(enumSchema, itemValue) ==
    LET named == {i \in 1..Len(enumSchema.values) : enumSchema.values[i].value = itemValue}
    IN  IF named = {} THEN Raise("KeyError")
        ELSE Values(enumSchema.values[CHOOSE i \in named : \A j \in named : j <= i].name)

enumValueTypeOf(enumSchema) ==
    IF Has(enumSchema, "valueType") THEN enumSchema.valueType ELSE "UINT16"

\* the names of the rows of an array of enum values (lines 604-611, 696-703)
EnumRows(enumSchema, enumValues) ==
    IF enumValues.kind = "raise" THEN enumValues
    ELSE Collect([i \in 1..Len(enumValues.v) |->
             Collect([j \in 1..Len(enumValues.v[i]) |->
                 EnumName(enumSchema, enumValues.v[i][j])])])

\* lines 564-640: an array property with a fixed count
FixedSizeArrayValues(doc, view, propType) ==
    LET cp == doc.classProp
        data == PySlice(doc.buffer, ByteOffsetOrZero(view),
                        ByteOffsetOrZero(view) + view.byteLength)
        componentCount == cp[compatMap(doc.mode, "componentCount")]
        byteCount == (doc.count * componentCount + 7) \div 8
        byteValues == PySlice(doc.buffer, ByteOffsetOrZero(view),
                              ByteOffsetOrZero(view) + Min(byteCount, view.byteLength))
        total == IF doc.mode = EXT_STRUCTURAL_METADATA
                 THEN componentCount * getComponentCount(propType)
                 ELSE componentCount
    IN  IF Has(cp, "componentType")
        THEN TransformRows(cp, cp.componentType,
                 readFixedSizeArrayValues(cp.componentType, doc.count, total, data))
        ELSE IF propType = "BOOLEAN"
        THEN IF Len(byteValues) # byteCount THEN Raise("struct.error")
             ELSE Values([i \in 1..doc.count |->
                     [j \in 1..componentCount |->
                         BitAt(byteValues, (i - 1) * componentCount + (j - 1))]])
        ELSE IF propType = "ENUM"
        THEN IF ~Has(cp, "enumType") THEN Raise("KeyError")
             ELSE IF ~Has(doc.enums, cp.enumType) THEN Raise("Exception")
             ELSE EnumRows(doc.enums[cp.enumType],
                      readFixedSizeArrayValues(enumValueTypeOf(doc.enums[cp.enumType]),
                                               doc.count, componentCount, data))
        ELSE Raise("UnboundLocalError")

\* lines 641-728: an array property without a fixed count
DynamicSizeArrayValues(doc, bufferView, propType) ==
    LET cp == doc.classProp
        tp == doc.tableProp
        view == ViewAt(doc, bufferView)
        aoKey == compatMap(doc.mode, "arrayOffsetBufferView")
        soKey == compatMap(doc.mode, "stringOffsetBufferView")
        aoView == ViewAt(doc, tp[aoKey])
        arrayOffsets ==
            readScalarValues(IF Has(tp, "arrayOffsetType") THEN tp.arrayOffsetType ELSE "UINT32",
                             doc.count + 1,
                             PySlice(doc.buffer, ByteOffsetOrZero(aoView),
                                     ByteOffsetOrZero(aoView) + aoView.byteLength))
        data == PySlice(doc.buffer, view.byteOffset, view.byteOffset + view.byteLength)
        soType == IF Has(tp, "stringOffsetType") THEN tp.stringOffsetType ELSE "UINT32"
        soView == ViewAt(doc, tp[soKey])
        stringOffsets ==
            IF propType # "STRING" THEN NoneVal
            ELSE readScalarValues(soType,
                                  soView.byteLength \div componentTypeSizeInBytes(soType),
                                  PySlice(doc.buffer, ByteOffsetOrZero(soView),
                                          ByteOffsetOrZero(soView) + soView.byteLength))
        componentType == IF Has(cp, "componentType") THEN cp.componentType ELSE NoComponentType
    IN  IF ~Has(tp, aoKey) THEN Raise("KeyError")
        ELSE IF arrayOffsets.kind = "raise" THEN arrayOffsets
        ELSE IF ~Has(view, "byteOffset") THEN Raise("KeyError")
        ELSE IF propType = "STRING" /\ ~Has(tp, soKey) THEN Raise("KeyError")
        ELSE IF stringOffsets.kind = "raise" THEN stringOffsets
        ELSE IF componentType = "ENUM"
        THEN IF ~Has(cp, "enumType") THEN Raise("KeyError")
             ELSE IF ~Has(doc.enums, cp.enumType) THEN Raise("Exception")
             ELSE EnumRows(doc.enums[cp.enumType],
                      readDynamicSizeArrayValues(propType,
                          enumValueTypeOf(doc.enums[cp.enumType]),
                          arrayOffsets.v, stringOffsets, data))
        ELSE TransformRows(cp, componentType,
                 readDynamicSizeArrayValues(propType, componentType, arrayOffsets.v,
                                            stringOffsets, data))

\* lines 729-743: a BOOLEAN property that is no array
BooleanValues(doc, view) ==
    LET byteCount == (doc.count + 7) \div 8
        byteValues == PySlice(doc.buffer, view.byteOffset,
                              view.byteOffset + Min(byteCount, view.byteLength))
    IN  IF ~Has(view, "byteOffset") THEN Raise("KeyError")
        ELSE IF Len(byteValues) # byteCount THEN Raise("struct.error")
        ELSE Values([i \in 1..doc.count |-> BitAt(byteValues, i - 1)])

\* lines 744-763: an ENUM property that is no array
EnumValues(doc, view) ==
    LET cp == doc.classProp
        enumSchema == doc.enums[cp.enumType]
        enumValues == readScalarValues(enumValueTypeOf(enumSchema), doc.count,
                          PySlice(doc.buffer, ByteOffsetOrZero(view),
                                  ByteOffsetOrZero(view) + view.byteLength))
    IN  IF ~Has(cp, "enumType") THEN Raise("KeyError")
        ELSE IF ~Has(doc.enums, cp.enumType) THEN Raise("Exception")
        ELSE IF enumValues.kind = "raise" THEN enumValues
        ELSE Collect([i \in 1..Len(enumValues.v) |-> EnumName(enumSchema, enumValues.v[i])])

\* lines 764-781: INT32, UINT32, UINT8 and FLOAT32 read where they stand
PlainValues(doc, view, propType) ==
    IF ~Has(view, "byteOffset") THEN Raise("KeyError")
    ELSE readScalarValues(propType, doc.count,
             PySlice(doc.buffer, view.byteOffset, view.byteOffset + view.byteLength))

\* lines 782-820: a STRING property that is no array; the try block turns
\* what is raised inside it into Exception
StringValues(doc, view) ==
    LET tp == doc.tableProp
        soKey == compatMap(doc.mode, "stringOffsetBufferView")
        soView == ViewAt(doc, tp[soKey])
        numOffsets == doc.count + 1
        length == IF soView.byteLength > numOffsets * 4 THEN numOffsets * 4
                  ELSE soView.byteLength
        stringOffsets == readScalarValues("UINT32", numOffsets,
                             PySlice(doc.buffer, soView.byteOffset, soView.byteOffset + length))
        strings == Collect([i \in 1..(Len(stringOffsets.v) - 1) |->
                       DecodeUtf8(PySlice(doc.buffer, view.byteOffset + stringOffsets.v[i],
                                          view.byteOffset + stringOffsets.v[i + 1]))])
    IN  IF Has(tp, "offsetType") /\ tp.offsetType # "UINT32" THEN Raise("Exception")
        ELSE IF ~Has(tp, soKey) THEN Raise("UnboundLocalError")
        ELSE IF ~Has(soView, "byteOffset") THEN Raise("Exception")
        ELSE IF stringOffsets.kind = "raise" THEN Raise("Exception")
        ELSE IF ~Has(view, "byteOffset") THEN Raise("Exception")
        ELSE IF strings.kind = "raise" THEN Raise("Exception")
        ELSE strings

\* lines 822-844: the other types of EXT_structural_metadata
StructuralValues(doc, view, propType) ==
    LET cp == doc.classProp
        data == PySlice(doc.buffer, ByteOffsetOrZero(view),
                        ByteOffsetOrZero(view) + view.byteLength)
    IN  IF ~Has(cp, "componentType") THEN Raise("KeyError")
        ELSE IF propType = "SCALAR" THEN readScalarValues(cp.componentType, doc.count, data)
        ELSE IF propType \in {"VEC2", "VEC3", "VEC4", "MAT2", "MAT3", "MAT4"}
        THEN readFixedSizeArrayValues(cp.componentType, doc.count,
                                      getComponentCount(propType), data)
        ELSE Raise("Exception")

\* getFeatureTablePropertyValues(ftName, propName) on the document's table
getFeatureTablePropertyValues(doc) ==
    LET cp == doc.classProp
        tp == doc.tableProp
        bvKey == compatMap(doc.mode, "bufferView")
        view == ViewAt(doc, tp[bvKey])
        propType == cp.type
        isArrayProp ==
            \/ doc.mode = EXT_STRUCTURAL_METADATA /\ Has(cp, "array") /\ cp.array
            \/ doc.mode = EXT_FEATURE_METADATA /\ propType = "ARRAY"
    IN  IF ~Has(tp, bvKey) THEN Raise("KeyError")
        ELSE IF ~Has(cp, "type") THEN Raise("Exception")
        ELSE IF isArrayProp
        THEN IF Has(cp, compatMap(doc.mode, "componentCount"))
             THEN FixedSizeArrayValues(doc, view, propType)
             ELSE DynamicSizeArrayValues(doc, tp[bvKey], propType)
        ELSE IF propType = "BOOLEAN" THEN BooleanValues(doc, view)
        ELSE IF propType = "ENUM" THEN EnumValues(doc, view)
        ELSE IF propType \in {"INT32", "UINT32", "UINT8", "FLOAT32"}
        THEN PlainValues(doc, view, propType)
        ELSE IF propType = "STRING" THEN StringValues(doc, view)
        ELSE IF doc.mode = EXT_STRUCTURAL_METADATA THEN StructuralValues(doc, view, propType)
        ELSE NoneVal

(***************************************************************************)
(* Documents.  One property of one table, written once for each           *)
(* generation over the same buffer: the keys are those of compatMap, the   *)
(* types those of each schema (EXT_feature_metadata names the component    *)
(* type as the type and has ARRAY with componentCount; it has no VECn,     *)
(* MATn, offset or scale, so such a property has no document there).       *)
(***************************************************************************)
Document(mode, count, classProp, tableProp, bufferViews, buffer, enums) ==
    [mode |-> mode, count |-> count, classProp |-> classProp, tableProp |-> tableProp,
     bufferViews |-> bufferViews, buffer |-> buffer, enums |-> enums]

ViewOf(hasOffset, offset, length) ==
    IF hasOffset THEN [byteOffset |-> offset, byteLength |-> length]
    ELSE [byteLength |-> length]

NoKeys == <<>>

PackAll(propType, vs) == Concat([i \in 1..Len(vs) |-> PackValue(propType, vs[i])])

\* the bytes before the values and whether the view names its byteOffset
\* (it may leave it out only when it is 0)
Placements == { <<0, TRUE>>, <<0, FALSE>>, <<4, TRUE>> }

Transforms ==
    { NoKeys, [offset |-> 10, scale |-> 2], [offset |-> 10], [scale |-> 2] }

MaxElements == 4

RawLists(propType) ==
    { [i \in 1..n |-> i] : n \in 0..MaxElements }
    \cup IF propType \in UnsignedTypes THEN {} ELSE { <<1, 0 - 2>> }

ScalarPair(t, vs, transform, place) ==
    LET buffer == Repeat(0, place[1]) \o PackAll(t, vs)
        views == <<ViewOf(place[2], place[1], Len(vs) * componentTypeSizeInBytes(t))>>
    IN  [old |-> IF transform # NoKeys THEN Absent
                 ELSE Document(EXT_FEATURE_METADATA, Len(vs), [type |-> t],
                               [bufferView |-> 0], views, buffer, NoKeys),
         new |-> Document(EXT_STRUCTURAL_METADATA, Len(vs),
                          [type |-> "SCALAR", componentType |-> t] @@ transform,
                          [values |-> 0], views, buffer, NoKeys)]

\* VECn and MATn of EXT_structural_metadata: MaxElements components in all
VectorPair(propType, t, transform) ==
    LET vs == [i \in 1..MaxElements |-> i]
    IN  [old |-> Absent,
         new |-> Document(EXT_STRUCTURAL_METADATA, MaxElements \div getComponentCount(propType),
                          [type |-> propType, componentType |-> t] @@ transform,
                          [values |-> 0],
                          <<ViewOf(TRUE, 0, MaxElements * componentTypeSizeInBytes(t))>>,
                          PackAll(t, vs), NoKeys)]

\* a fixed array of componentCount numbers a row, MaxElements numbers in all
FixedPair(t, componentCount, transform, normalized) ==
    LET vs == [i \in 1..MaxElements |-> i]
        views == <<ViewOf(TRUE, 0, MaxElements * componentTypeSizeInBytes(t))>>
        extra == IF normalized THEN [normalized |-> TRUE] ELSE NoKeys
    IN  [old |-> IF transform # NoKeys THEN Absent
                 ELSE Document(EXT_FEATURE_METADATA, MaxElements \div componentCount,
                               [type |-> "ARRAY", componentType |-> t,
                                componentCount |-> componentCount] @@ extra,
                               [bufferView |-> 0], views, PackAll(t, vs), NoKeys),
         new |-> Document(EXT_STRUCTURAL_METADATA, MaxElements \div componentCount,
                          [type |-> "SCALAR", componentType |-> t, array |-> TRUE,
                           count |-> componentCount] @@ transform @@ extra,
                          [values |-> 0], views, PackAll(t, vs), NoKeys)]

\* packed bits: count elements, as scalars (componentCount 0) or as rows
BooleanPair(count, componentCount, bytes, place) ==
    LET buffer == Repeat(0, place[1]) \o bytes
        views == <<ViewOf(place[2], place[1], Len(bytes))>>
    IN  IF componentCount = 0
        THEN [old |-> Document(EXT_FEATURE_METADATA, count, [type |-> "BOOLEAN"],
                               [bufferView |-> 0], views, buffer, NoKeys),
              new |-> Document(EXT_STRUCTURAL_METADATA, count, [type |-> "BOOLEAN"],
                               [values |-> 0], views, buffer, NoKeys)]
        ELSE [old |-> Document(EXT_FEATURE_METADATA, count,
                               [type |-> "ARRAY", componentType |-> "BOOLEAN",
                                componentCount |-> componentCount],
                               [bufferView |-> 0], views, buffer, NoKeys),
              new |-> Document(EXT_STRUCTURAL_METADATA, count,
                               [type |-> "BOOLEAN", array |-> TRUE, count |-> componentCount],
                               [values |-> 0], views, buffer, NoKeys)]

BooleanBytes == { <<165, 2>>, <<165, 2, 255>>, <<90, 1>> }

Enums(valueType) ==
    LET values == <<[name |-> "A", value |-> 0], [name |-> "B", value |-> 1]>>
    IN  [e |-> IF valueType = "UINT16" THEN [values |-> values]
               ELSE [values |-> values, valueType |-> valueType]]

\* enum values 0 1 1 0, as scalars (componentCount 0) or as rows
EnumPair(valueType, componentCount, place) ==
    LET buffer == Repeat(0, place[1]) \o PackAll(valueType, <<0, 1, 1, 0>>)
        views == <<ViewOf(place[2], place[1], 4 * componentTypeSizeInBytes(valueType))>>
    IN  IF componentCount = 0
        THEN [old |-> Document(EXT_FEATURE_METADATA, 4, [type |-> "ENUM", enumType |-> "e"],
                               [bufferView |-> 0], views, buffer, Enums(valueType)),
              new |-> Document(EXT_STRUCTURAL_METADATA, 4, [type |-> "ENUM", enumType |-> "e"],
                               [values |-> 0], views, buffer, Enums(valueType))]
        ELSE [old |-> Document(EXT_FEATURE_METADATA, 4 \div componentCount,
                               [type |-> "ARRAY", componentType |-> "ENUM", enumType |-> "e",
                                componentCount |-> componentCount],
                               [bufferView |-> 0], views, buffer, Enums(valueType)),
              new |-> Document(EXT_STRUCTURAL_METADATA, 4 \div componentCount,
                               [type |-> "ENUM", enumType |-> "e", array |-> TRUE,
                                count |-> componentCount],
                               [values |-> 0], views, buffer, Enums(valueType))]

\* the strings "ab" and "cde"; the offsets view may be longer than it need be
StringPair(padding, place) ==
    LET text == <<97, 98, 99, 100, 101>>
        buffer == Repeat(0, place[1]) \o text \o PackAll("UINT32", <<0, 2, 5>>)
                  \o Repeat(0, padding)
        views == <<ViewOf(place[2], place[1], 5), ViewOf(TRUE, place[1] + 5, 12 + padding)>>
    IN  [old |-> Document(EXT_FEATURE_METADATA, 2, [type |-> "STRING"],
                          [bufferView |-> 0, stringOffsetBufferView |-> 1],
                          views, buffer, NoKeys),
         new |-> Document(EXT_STRUCTURAL_METADATA, 2, [type |-> "STRING"],
                          [values |-> 0, stringOffsets |-> 1], views, buffer, NoKeys)]

\* the rows (1) and (2, 3) of a dynamic array of numbers
DynamicPair(t, transform, place) ==
    LET size == componentTypeSizeInBytes(t)
        buffer == Repeat(0, place[1]) \o PackAll(t, <<1, 2, 3>>)
                  \o PackAll("UINT32", <<0, size, 3 * size>>)
        views == <<ViewOf(place[2], place[1], 3 * size),
                   ViewOf(TRUE, place[1] + 3 * size, 12)>>
    IN  [old |-> IF transform # NoKeys THEN Absent
                 ELSE Document(EXT_FEATURE_METADATA, 2,
                               [type |-> "ARRAY", componentType |-> t],
                               [bufferView |-> 0, stringOffsetBufferView |-> 1],
                               views, buffer, NoKeys),
         new |-> Document(EXT_STRUCTURAL_METADATA, 2,
                          [type |-> "SCALAR", componentType |-> t, array |-> TRUE] @@ transform,
                          [values |-> 0, arrayOffsets |-> 1], views, buffer, NoKeys)]

\* the rows ("ab") and ("cde") of a dynamic array of strings, the last
\* offset equal to the length of the values view
DynamicStringPair ==
    LET text == <<97, 98, 99, 100, 101>>
        buffer == text \o PackAll("UINT32", <<0, 2, 5>>) \o PackAll("UINT32", <<0, 1, 2>>)
        views == <<ViewOf(TRUE, 0, 5), ViewOf(TRUE, 5, 12), ViewOf(TRUE, 17, 12)>>
    IN  [old |-> Document(EXT_FEATURE_METADATA, 2,
                          [type |-> "ARRAY", componentType |-> "STRING"],
                          [bufferView |-> 0, stringOffsetBufferView |-> 1,
                           arrayOffsetBufferView |-> 2],
                          views, buffer, NoKeys),
         new |-> Document(EXT_STRUCTURAL_METADATA, 2, [type |-> "STRING", array |-> TRUE],
                          [values |-> 0, stringOffsets |-> 1, arrayOffsets |-> 2],
                          views, buffer, NoKeys)]

PropertyPairs ==
    UNION { { ScalarPair(t, vs, transform, place) :
                vs \in RawLists(t), transform \in Transforms, place \in Placements } :
            t \in NumericTypes }
    \cup { VectorPair(propType, t, transform) :
             propType \in {"VEC2", "MAT2"}, t \in NumericTypes, transform \in Transforms }
    \cup UNION { { FixedPair(t, 2, transform, normalized) :
                     transform \in Transforms,
                     normalized \in IF t \in FloatTypes THEN {FALSE} ELSE BOOLEAN } :
                 t \in NumericTypes }
    \cup { BooleanPair(shape[1], shape[2], bytes, place) :
             shape \in { <<10, 0>>, <<3, 0>>, <<0, 0>>, <<3, 3>>, <<5, 2>>, <<1, 1>> },
             bytes \in BooleanBytes, place \in Placements }
    \cup { EnumPair(valueType, componentCount, place) :
             valueType \in {"UINT16", "UINT8"}, componentCount \in {0, 2},
             place \in Placements }
    \cup { StringPair(padding, place) : padding \in {0, 4}, place \in Placements }
    \cup { DynamicPair(t, transform, place) :
             t \in NumericTypes, transform \in Transforms, place \in Placements }
    \cup { DynamicStringPair }

MetaInit ==
    /\ \E pair \in PropertyPairs :
          /\ docOld = pair.old
          /\ docNew = pair.new
    /\ outOld = NotCalled
    /\ outNew = NotCalled
    /\ ArchIdle
    /\ LookupIdle
    /\ CodecIdle
    /\ HarnessIdle("meta")

\* getFeatureTablePropertyValues on the EXT_feature_metadata document
DecodeOld ==
    /\ docOld # Absent
    /\ outOld = NotCalled
    /\ outOld' = getFeatureTablePropertyValues(docOld)
    /\ UNCHANGED <<docOld, docNew, outNew, lookupVars, archVars, codecVars>>
    /\ HarnessStill("meta")

\* getFeatureTablePropertyValues on the EXT_structural_metadata document
DecodeNew ==
    /\ outNew = NotCalled
    /\ outNew' = getFeatureTablePropertyValues(docNew)
    /\ UNCHANGED <<docOld, docNew, outOld, lookupVars, archVars, codecVars>>
    /\ HarnessStill("meta")

MetaNext == DecodeOld \/ DecodeNew

SpecMeta == MetaInit /\ [][MetaNext]_vars



(***************************************************************************)
(* SpecEdge: getFeatureTablePropertyValues on documents whose buffer       *)
(* views need not fit their buffer and whose tables may be empty.  A      *)
(* document is what a file holds: nothing in GltfDocument or loadMetadata  *)
(* compares a view with its buffer or with the table's count.              *)
(***************************************************************************)
EdgeBufferLen == 4

EdgeOffsets == { 0 - EdgeBufferLen, 0 - 2, 0, 2 }

EdgeLengths == { 0, 2, 4, 2 * EdgeBufferLen }

EdgeCounts == 0..2

EdgeViews == { ViewOf(TRUE, offset, length) : offset \in EdgeOffsets, length \in EdgeLengths }

\* the bytes 1, 2, ... of a buffer
EdgeBytes == [i \in 1..EdgeBufferLen |-> i]

EdgeScalarPair(t, count, view) ==
    [old |-> Document(EXT_FEATURE_METADATA, count, [type |-> t],
                      [bufferView |-> 0], <<view>>, EdgeBytes, NoKeys),
     new |-> Document(EXT_STRUCTURAL_METADATA, count, [type |-> "SCALAR", componentType |-> t],
                      [values |-> 0], <<view>>, EdgeBytes, NoKeys)]

EdgeVectorPair(count, view) ==
    [old |-> Absent,
     new |-> Document(EXT_STRUCTURAL_METADATA, count, [type |-> "VEC2", componentType |-> "UINT8"],
                      [values |-> 0], <<view>>, EdgeBytes, NoKeys)]

EdgeFixedPair(count, view) ==
    [old |-> Document(EXT_FEATURE_METADATA, count,
                      [type |-> "ARRAY", componentType |-> "UINT8", componentCount |-> 2],
                      [bufferView |-> 0], <<view>>, EdgeBytes, NoKeys),
     new |-> Document(EXT_STRUCTURAL_METADATA, count,
                      [type |-> "SCALAR", componentType |-> "UINT8", array |-> TRUE, count |-> 2],
                      [values |-> 0], <<view>>, EdgeBytes, NoKeys)]

EdgeBooleanPair(count, view) ==
    [old |-> Document(EXT_FEATURE_METADATA, count, [type |-> "BOOLEAN"],
                      [bufferView |-> 0], <<view>>, EdgeBytes, NoKeys),
     new |-> Document(EXT_STRUCTURAL_METADATA, count, [type |-> "BOOLEAN"],
                      [values |-> 0], <<view>>, EdgeBytes, NoKeys)]

\* the enum values 0 1 1 0 ... in a buffer of EdgeBufferLen bytes
EdgeEnumPair(count, view) ==
    LET buffer == [i \in 1..EdgeBufferLen |-> (i \div 2) % 2]
    IN  [old |-> Document(EXT_FEATURE_METADATA, count, [type |-> "ENUM", enumType |-> "e"],
                          [bufferView |-> 0], <<view>>, buffer, Enums("UINT8")),
         new |-> Document(EXT_STRUCTURAL_METADATA, count, [type |-> "ENUM", enumType |-> "e"],
                          [values |-> 0], <<view>>, buffer, Enums("UINT8"))]

\* count strings over the text "ab", the string offsets 0 2 2 after it
EdgeStringPair(count, offsetsLength) ==
    LET buffer == <<97, 98>> \o PackAll("UINT32", <<0, 2, 2>>)
        views == <<ViewOf(TRUE, 0, 2), ViewOf(TRUE, 2, offsetsLength)>>
    IN  [old |-> Document(EXT_FEATURE_METADATA, count, [type |-> "STRING"],
                          [bufferView |-> 0, stringOffsetBufferView |-> 1],
                          views, buffer, NoKeys),
         new |-> Document(EXT_STRUCTURAL_METADATA, count, [type |-> "STRING"],
                          [values |-> 0, stringOffsets |-> 1], views, buffer, NoKeys)]

\* count rows over the numbers 1 2, the array offsets 0 2 2 after them
EdgeDynamicPair(count, offsetsLength) ==
    LET buffer == <<1, 2>> \o PackAll("UINT32", <<0, 2, 2>>)
        views == <<ViewOf(TRUE, 0, 2), ViewOf(TRUE, 2, offsetsLength)>>
    IN  [old |-> Document(EXT_FEATURE_METADATA, count,
                          [type |-> "ARRAY", componentType |-> "UINT8"],
                          [bufferView |-> 0, stringOffsetBufferView |-> 1],
                          views, buffer, NoKeys),
         new |-> Document(EXT_STRUCTURAL_METADATA, count,
                          [type |-> "SCALAR", componentType |-> "UINT8", array |-> TRUE],
                          [values |-> 0, arrayOffsets |-> 1], views, buffer, NoKeys)]

EdgeOffsetsLengths == { 0, 4, 8, 12, 16 }

EdgePairs ==
    { EdgeScalarPair(t, count, view) :
        t \in {"UINT8", "UINT16"}, count \in EdgeCounts, view \in EdgeViews }
    \cup { EdgeVectorPair(count, view) : count \in EdgeCounts, view \in EdgeViews }
    \cup { EdgeFixedPair(count, view) : count \in EdgeCounts, view \in EdgeViews }
    \cup { EdgeBooleanPair(count, view) : count \in {0, 3, 10}, view \in EdgeViews }
    \cup { EdgeEnumPair(count, view) : count \in EdgeCounts, view \in EdgeViews }
    \cup { EdgeStringPair(count, length) : count \in EdgeCounts, length \in EdgeOffsetsLengths }
    \cup { EdgeDynamicPair(count, length) : count \in EdgeCounts, length \in EdgeOffsetsLengths }

EdgeInit ==
    /\ \E pair \in EdgePairs :
          /\ docOld = pair.old
          /\ docNew = pair.new
    /\ outOld = NotCalled
    /\ outNew = NotCalled
    /\ ArchIdle
    /\ LookupIdle
    /\ CodecIdle
    /\ HarnessIdle("meta")

SpecEdge == EdgeInit /\ [][MetaNext]_vars


(***************************************************************************)
(* SpecBuffers: GltfDocument(buffer, basePath) followed by calls of        *)
(* loadAllBuffers (gltf.py:168-197, 214-226).  The file is a GLB or the    *)
(* text of a glTF JSON document; lDoc is the parsed document as far as     *)
(* loadAllBuffers reads it: its "buffers" member, each buffer with or      *)
(* without a "uri".  A uri is held as what datauriRegexp makes of it: the  *)
(* base64 text of group 1 when it matches, a path relative to basePath     *)
(* when it does not.                                                       *)
(***************************************************************************)
Bytes(b) == [kind |-> "bytes", v |-> b]

\* the value of a character of the base64 alphabet
B64Digit(c) ==
    IF c >= 65 /\ c <= 90 THEN c - 65
    ELSE IF c >= 97 /\ c <= 122 THEN c - 71
    ELSE IF c >= 48 /\ c <= 57 THEN c + 4
    ELSE IF c = 43 THEN 62
    ELSE 63

\* base64.standard_b64decode of text over the alphabet and "=": 4 characters
\* give 3 bytes, less one byte for each "=" that ends the text
B64Decode(text) ==
    IF Len(text) % 4 # 0 THEN Raise("binascii.Error")
    ELSE LET Group(g) ==
                 LET c == [k \in 1..4 |-> text[4 * g + k]]
                     pad == IF c[3] = 61 THEN 2 ELSE IF c[4] = 61 THEN 1 ELSE 0
                     n == B64Digit(c[1]) * 262144 + B64Digit(c[2]) * 4096
                          + (IF pad = 2 THEN 0 ELSE B64Digit(c[3]) * 64)
                          + (IF pad >= 1 THEN 0 ELSE B64Digit(c[4]))
                 IN  SubSeq(<<n \div 65536, (n \div 256) % 256, n % 256>>, 1, 3 - pad)
         IN  Bytes(Concat([g \in 1..(Len(text) \div 4) |-> Group(g - 1)]))

\* the files below basePath
BufferFile(name) == IF name = "a.bin" THEN Bytes(<<9, 8>>) ELSE Absent

NoUri == [kind |-> "no uri"]
DataUri(text) == [kind |-> "data", text |-> text]
PathUri(name) == [kind |-> "path", name |-> name]

GltfMagic == ToLE(1179937895, 4)

\* GltfDocument.__init__: the buffers it starts with, or the error raised;
\* the document declares asset version 2.0
Construct(buffer) ==
    IF Len(buffer) < 12 THEN Raise("ValueError")
    ELSE IF PySlice(buffer, 0, 4) = GltfMagic
    THEN LET chunks == CHOOSE r \in { getChunksFromBuffer(b) : b \in {buffer} } : TRUE
         IN  IF chunks.kind = "raise" THEN chunks ELSE Values(<<chunks.bindata>>)
    ELSE Values(<<>>)

\* what loadAllBuffers does for one member of "buffers": the entry appended
\* (Bytes), nothing (NoneVal) or the error raised
LoadOne(decl) ==
    IF decl.kind = "no uri" THEN NoneVal
    ELSE IF decl.kind = "data"
    THEN IF decl.text = <<>> THEN NoneVal ELSE B64Decode(decl.text)
    ELSE IF BufferFile(decl.name) = Absent THEN Raise("FileNotFoundError")
    ELSE BufferFile(decl.name)

\* the for loop from member i on: self.buffers when it ends, and how
RECURSIVE LoadFrom(_, _, _)
LoadFrom(buffers, decls, i) ==
    IF i > Len(decls) THEN [buffers |-> buffers, out |-> NoneVal]
    ELSE LET one == CHOOSE r \in { LoadOne(d) : d \in {decls[i]} } : TRUE
         IN  IF one.kind = "raise" THEN [buffers |-> buffers, out |-> one]
             ELSE IF one.kind = "None" THEN LoadFrom(buffers, decls, i + 1)
             ELSE LoadFrom(Append(buffers, one), decls, i + 1)

loadAllBuffers(buffers, doc) ==
    IF Has(doc, "buffers") THEN LoadFrom(buffers, doc.buffers, 1)
    ELSE [buffers |-> buffers, out |-> NoneVal]

MaxBuffers == 2
MaxLoads == 2

\* "AQI=" and "AQID": the bytes 1 2 and 1 2 3
Declarations ==
    { NoUri, DataUri(<<>>), DataUri(<<65, 81, 73, 61>>), DataUri(<<65, 81, 73, 68>>),
      PathUri("a.bin"), PathUri("b.bin") }

BufferLists ==
    UNION { [1..n -> Declarations] : n \in 0..MaxBuffers }

\* a glTF JSON text (its bytes are not looked at past the magic), GLBs with
\* a BIN chunk, without one and with an empty one, a GLB of version 1 and a
\* file of 8 bytes
GltfFiles ==
    { <<123>> \o Repeat(32, 10) \o <<125>>,
      GlbBytes(GlbMagic, 2, 2, ChunkTypeJson, <<123, 125>>, Chunk(2, ChunkTypeBin, <<7, 7>>)),
      GlbBytes(GlbMagic, 2, 2, ChunkTypeJson, <<123, 125>>, <<>>),
      GlbBytes(GlbMagic, 2, 2, ChunkTypeJson, <<123, 125>>, Chunk(0, ChunkTypeBin, <<>>)),
      GlbBytes(GlbMagic, 1, 2, ChunkTypeJson, <<123, 125>>, <<>>),
      GlbMagic \o ToLE(2, 4) }

BuffersInit ==
    /\ lFile \in GltfFiles
    /\ lDoc \in { NoKeys } \cup { [buffers |-> list] : list \in BufferLists }
    /\ lpc = "file"
    /\ lBuffers = <<>>
    /\ lLoads = 0
    /\ lOut = NotCalled
    /\ ArchIdle
    /\ LookupIdle
    /\ CodecIdle
    /\ HarnessIdle("load")

\* GltfDocument(buffer, basePath)
NewGltfDocument ==
    /\ lpc = "file"
    /\ \E made \in { Construct(lFile) } :
          IF made.kind = "raise"
          THEN lpc' = "failed" /\ lBuffers' = lBuffers
          ELSE lpc' = "constructed" /\ lBuffers' = made.v
    /\ UNCHANGED <<lFile, lDoc, lLoads, lOut, lookupVars, archVars, codecVars>>
    /\ HarnessStill("load")

\* document.loadAllBuffers()
LoadAllBuffers ==
    /\ lpc = "constructed"
    /\ lLoads < MaxLoads
    /\ \E done \in { loadAllBuffers(lBuffers, lDoc) } :
          /\ lBuffers' = done.buffers
          /\ lOut' = done.out
    /\ lLoads' = lLoads + 1
    /\ UNCHANGED <<lFile, lDoc, lpc, lookupVars, archVars, codecVars>>
    /\ HarnessStill("load")

BuffersNext == NewGltfDocument \/ LoadAllBuffers

SpecBuffers == BuffersInit /\ [][BuffersNext]_vars

(***************************************************************************)
(* SpecConverge: the search loop run to its end, on the index blobs of     *)
(* SpecLookup and on sorted indexes of LongIndexEntries entries.  The loop *)
(* is straight-line code of one thread: a step that can be taken is taken. *)
(***************************************************************************)
LongIndexEntries == 30

\* a sorted index of n entries of which the first rank are less than KeyA and
\* the others greater; with hit, entry number rank is KeyA itself
RankedIndex(n, rank, hit) ==
    PackIndex([i \in 1..n |->
        IF hit /\ i = rank THEN [lo |-> KeyA.lo, hi |-> KeyA.hi, off |-> ToLE(331, 8)]
        ELSE IF i <= rank THEN [lo |-> KeyA.lo, hi |-> ToLE(i, 8), off |-> ToLE(i, 8)]
        ELSE [lo |-> Repeat(255, 8), hi |-> ToLE(i, 8), off |-> ToLE(i, 8)]])

LongIndexes ==
    { RankedIndex(LongIndexEntries, rank, FALSE) : rank \in 0..LongIndexEntries }
    \cup { RankedIndex(LongIndexEntries, rank, TRUE) : rank \in 1..LongIndexEntries }

ConvergeInit ==
    /\ sIndex \in IndexBlobs \cup LongIndexes
    /\ sPath \in QueryPaths
    /\ low = 0
    /\ high = 0
    /\ probed = <<>>
    /\ sRet = Running
    /\ spc = "start"
    /\ ArchIdle
    /\ CodecIdle
    /\ HarnessIdle("none")

SpecConverge == ConvergeInit /\ [][LookupNext]_vars /\ WF_vars(LookupNext)
(***************************************************************************)
(* The HTTP handlers of 3ts.py.  Paths, header values and bodies are       *)
(* sequences of bytes; a content type is a string.                         *)
(***************************************************************************)
StartsWith(s, p) == Len(s) >= Len(p) /\ SubSeq(s, 1, Len(p)) = p

EndsWith(s, p) == Len(s) >= Len(p) /\ SubSeq(s, Len(s) - Len(p) + 1, Len(s)) = p

\* s.split(sep): the pieces between the occurrences of the byte sep
RECURSIVE Split(_, _)
Split(s, sep) ==
    LET at == {i \in 1..Len(s) : s[i] = sep}
    IN  IF at = {} THEN <<s>>
        ELSE LET i == CHOOSE j \in at : \A k \in at : j <= k
             IN  <<SubSeq(s, 1, i - 1)>> \o Split(SubSeq(s, i + 1, Len(s)), sep)

\* what str.strip() removes, among the bytes below 128
Whitespace == {9, 10, 11, 12, 13, 28, 29, 30, 31, 32}

Strip(s) ==
    LET keep == {i \in 1..Len(s) : s[i] \notin Whitespace}
    IN  IF keep = {} THEN <<>>
        ELSE SubSeq(s, CHOOSE i \in keep : \A k \in keep : i <= k,
                       CHOOSE i \in keep : \A k \in keep : i >= k)

Ext3tz == <<46, 51, 116, 122>>
ExtZip == <<46, 122, 105, 112>>
ExtJson == <<46, 106, 115, 111, 110>>
DefaultInnerPath == <<116, 105, 108, 101, 115, 101, 116, 46, 106, 115, 111, 110>>
MAXAR_content_3tz == <<77, 65, 88, 65, 82, 95, 99, 111, 110, 116, 101, 110, 116, 95, 51, 116, 122>>

\* re.match(r"(.*\.(3tz|zip))[\/]?(.*)", path) for exts = {".3tz", ".zip"} and
\* re.match(r"(.*\.3tz)[\/]?(.*)", path) for exts = {".3tz"}, the path holding
\* no line break: the greedy first group ends with the last extension in the
\* path, one "/" after it is skipped, the last group is what is left
MatchEndingAt(path, e) ==
    [kind |-> "match", archive |-> SubSeq(path, 1, e),
     inner |-> IF e < Len(path) /\ path[e + 1] = 47
               THEN SubSeq(path, e + 2, Len(path))
               ELSE SubSeq(path, e + 1, Len(path))]

MatchOf(exts, path) ==
    IF \A i \in 4..Len(path) : SubSeq(path, i - 3, i) \notin exts THEN NoneVal
    ELSE MatchEndingAt(path, CHOOSE i \in 4..Len(path) :
                                /\ SubSeq(path, i - 3, i) \in exts
                                /\ \A k \in (i + 1)..Len(path) :
                                       SubSeq(path, k - 3, k) \notin exts)

reMatch(exts, path) == CHOOSE r \in {MatchOf(exts, p) : p \in {path}} : TRUE

\* pathlib.PurePath(path).suffix, for a path without "." and ".." components:
\* the last component, trailing "/" dropped, from its last "." on, unless the
\* "." begins or ends the component
Suffix(path) ==
    LET keep == {i \in 1..Len(path) : path[i] # 47}
        end == IF keep = {} THEN 0 ELSE CHOOSE i \in keep : \A k \in keep : i >= k
        slashes == {i \in 1..end : path[i] = 47}
        start == IF slashes = {} THEN 1
                 ELSE 1 + CHOOSE i \in slashes : \A k \in slashes : i >= k
        dots == {i \in start..end : path[i] = 46}
        dot == IF dots = {} THEN 0 ELSE CHOOSE i \in dots : \A k \in dots : i >= k
    IN  IF dot > start /\ dot < end THEN SubSeq(path, dot, end) ELSE <<>>

contentTypeFromFileExtension(fileExtension) ==
    CASE fileExtension = <<46, 106, 115>>      -> "application/javascript"
      [] fileExtension = <<46, 99, 115, 115>>     -> "text/css"
      [] fileExtension = <<46, 106, 115, 111, 110>>    -> "application/json"
      [] fileExtension = <<46, 103, 101, 111, 106, 115, 111, 110>> -> "application/geo+json"
      [] fileExtension = <<46, 115, 118, 103>>     -> "image/svg+xml"
      [] fileExtension = <<46, 112, 110, 103>>     -> "image/png"
      [] fileExtension = <<46, 106, 112, 103>>     -> "image/jpeg"
      [] fileExtension = <<46, 107, 116, 120, 50>>    -> "image/ktx2"
      [] fileExtension = <<46, 104, 116, 109, 108>>    -> "text/html"
      [] fileExtension = <<46, 105, 99, 111>>     -> "image/x-icon"
      [] OTHER                        -> "application/octet-stream"

\* the set "accepted" of isAcceptedContentEncoding: of every piece between
\* commas, stripped, what precedes its first ";"
AcceptedEncodings(acceptHeader) ==
    UNION { { Split(Strip(Split(acceptHeader[h], 44)[e]), 59)[1]
              : e \in 1..Len(Split(acceptHeader[h], 44)) }
            : h \in 1..Len(acceptHeader) }

\* acceptHeader: the values of the request's Accept-Encoding headers, in
\* order; it is empty when the request has none, or no header at all
isAcceptedContentEncoding(acceptHeader, contentEncoding) ==
    IF acceptHeader = <<>> THEN FALSE
    ELSE contentEncoding \in AcceptedEncodings(acceptHeader)
(***************************************************************************)
(* json.loads and json.dumps over a family of documents.  A document is an *)
(* object, the sequence of its members [k, v] in the order of the text, or *)
(* an array; a member's value is a list of strings or a number.  A text is *)
(* parsed by finding the document that is written so: with the separators  *)
(* of json.dumps (", " and ": ") or without the blanks.  Any other text is *)
(* one json.loads rejects.                                                 *)
(***************************************************************************)
JsonList(items) == [kind |-> "list", v |-> items]
\* a number keeps its text, in the shape of a list of one item
JsonNumber(digits) == [kind |-> "number", v |-> <<digits>>]
JsonObject(members) == [kind |-> "object", members |-> members]
JsonArray == [kind |-> "array"]

KeyUsed == <<101, 120, 116, 101, 110, 115, 105, 111, 110, 115, 85, 115, 101, 100>>
KeyRequired == <<101, 120, 116, 101, 110, 115, 105, 111, 110, 115, 82, 101, 113, 117, 105, 114, 101, 100>>
KeyGeometricError == <<103, 101, 111, 109, 101, 116, 114, 105, 99, 69, 114, 114, 111, 114>>
OtherExtension == <<51, 68, 84, 73, 76, 69, 83, 95, 109, 101, 116, 97, 100, 97, 116, 97>>

RECURSIVE JoinWith(_, _)
JoinWith(parts, sep) ==
    IF parts = <<>> THEN <<>>
    ELSE IF Len(parts) = 1 THEN parts[1]
    ELSE parts[1] \o sep \o JoinWith(Tail(parts), sep)

Quoted(s) == <<34>> \o s \o <<34>>

WriteValue(v, itemSep) ==
    IF v.kind = "number" THEN v.v[1]
    ELSE <<91>> \o JoinWith([i \in 1..Len(v.v) |-> Quoted(v.v[i])], itemSep) \o <<93>>

WriteJson(doc, itemSep, keySep) ==
    IF doc.kind = "array" THEN <<91, 93>>
    ELSE <<123>>
         \o JoinWith([i \in 1..Len(doc.members) |->
                        Quoted(doc.members[i].k) \o keySep
                        \o WriteValue(doc.members[i].v, itemSep)], itemSep)
         \o <<125>>

\* json.dumps(doc)
JsonDumps(doc) == WriteJson(doc, <<44, 32>>, <<58, 32>>)

\* the same document as a writer without blanks stores it
JsonCompact(doc) == WriteJson(doc, <<44>>, <<58>>)

\* list.remove(x), x being in the list: the first x goes
ListRemove(items, x) ==
    LET i == CHOOSE j \in 1..Len(items) :
                 items[j] = x /\ \A k \in 1..(j - 1) : items[k] # x
    IN  SubSeq(items, 1, i - 1) \o SubSeq(items, i + 1, Len(items))

\* doc[key]
JsonGet(doc, key) ==
    IF doc.kind # "object" THEN Raise("TypeError")
    ELSE LET at == {i \in 1..Len(doc.members) : doc.members[i].k = key}
         IN  IF at = {} THEN Raise("KeyError")
             ELSE doc.members[CHOOSE i \in at : TRUE].v

\* if "MAXAR_content_3tz" in doc[key]: doc[key].remove("MAXAR_content_3tz")
RemoveToken(doc, key) ==
    LET v == JsonGet(doc, key)
    IN  IF v.kind = "raise" THEN v
        ELSE IF v.kind # "list" THEN Raise("TypeError")
        ELSE IF \A i \in 1..Len(v.v) : v.v[i] # MAXAR_content_3tz THEN doc
        ELSE [doc EXCEPT !.members =
                 [i \in 1..Len(@) |->
                     IF @[i].k = key
                     THEN [@[i] EXCEPT !.v = JsonList(ListRemove(v.v, MAXAR_content_3tz))]
                     ELSE @[i]]]

\* lines 189-192 of stripMaxarContent3tz
StripBoth(doc) ==
    LET d1 == RemoveToken(doc, KeyRequired)
    IN  IF d1.kind = "raise" THEN d1 ELSE RemoveToken(d1, KeyUsed)

TilesetMember(key, items) == [k |-> key, v |-> JsonList(items)]
ErrorMember == [k |-> KeyGeometricError, v |-> JsonNumber(<<52>>)]

TilesetWithToken ==
    JsonObject(<<ErrorMember, TilesetMember(KeyUsed, <<MAXAR_content_3tz>>),
                 TilesetMember(KeyRequired, <<MAXAR_content_3tz>>)>>)

\* the documents the archives store
StoredDocuments ==
    { TilesetWithToken,
      JsonObject(<<TilesetMember(KeyUsed, <<OtherExtension, MAXAR_content_3tz>>),
                   TilesetMember(KeyRequired, <<MAXAR_content_3tz, OtherExtension>>),
                   ErrorMember>>),
      JsonObject(<<TilesetMember(KeyUsed, <<OtherExtension>>),
                   TilesetMember(KeyRequired, <<>>)>>),
      JsonObject(<<TilesetMember(KeyUsed, <<MAXAR_content_3tz, MAXAR_content_3tz>>),
                   TilesetMember(KeyRequired, <<>>)>>),
      JsonObject(<<ErrorMember, TilesetMember(KeyUsed, <<MAXAR_content_3tz>>)>>),
      JsonObject(<<TilesetMember(KeyRequired, <<MAXAR_content_3tz>>), ErrorMember>>),
      JsonObject(<<ErrorMember>>),
      JsonArray }

JsonDocuments ==
    StoredDocuments \cup {StripBoth(d) : d \in {s \in StoredDocuments : StripBoth(s).kind # "raise"}}

\* json.loads(text)
JsonLoads(text) ==
    LET written == {d \in JsonDocuments : text \in {JsonDumps(d), JsonCompact(d)}}
    IN  IF written = {} THEN Raise("JSONDecodeError") ELSE CHOOSE d \in written : TRUE

\* FileContents(data, contentType, compMethod, uncompSize) (3ts.py:323-328)
ServedContents(data, contentType, compMethod, uncompSize) ==
    [kind |-> "FileContents", data |-> data, contentType |-> contentType,
     compMethod |-> compMethod, uncompSize |-> uncompSize]

\* stripMaxarContent3tz(fileContents): whatever is raised ends in None
stripMaxarContent3tz(zstdLoaded, fileContents) ==
    IF fileContents.kind # "FileContents" THEN NoneVal
    ELSE LET data == IF fileContents.compMethod # ZIP_COMPRESSION_METHOD_STORE
                     THEN decompressFileContents(zstdLoaded, fileContents.compMethod,
                                                 fileContents.uncompSize, fileContents.data)
                     ELSE Bytes(fileContents.data)
             doc == IF data.kind = "raise" THEN data ELSE JsonLoads(data.v)
             stripped == IF doc.kind = "raise" THEN doc ELSE StripBoth(doc)
         IN  IF stripped.kind = "raise" THEN NoneVal
             ELSE [fileContents EXCEPT !.data = JsonDumps(stripped),
                                       !.compMethod = ZIP_COMPRESSION_METHOD_STORE]
(***************************************************************************)
(* Single3tzArchive as the handlers use it: a pure account of __init__ and *)
(* of getFile on a handle h whose file object reads the container c.       *)
(***************************************************************************)
MissingFile == [exists |-> FALSE, isZip |-> FALSE, bytes |-> <<>>, infolist |-> <<>>]

FileAt(files, path) == IF path \in DOMAIN files THEN files[path] ELSE MissingFile

\* Single3tzArchive(containerpath): the object's attributes, whether the
\* process ended in exit(-1), and the exception the except clause logged;
\* each step is computed once, from the steps before it
Opened(c, tail, lfh, indexContent, index, built) ==
    [handle |-> InitHandle(c, tail, lfh, indexContent, index, built),
     exit |-> built.kind = "raise",
     swallowed |-> InitSwallowed(c, tail, lfh, indexContent, index)]

OpenFromContent(c, tail, lfh, indexContent) ==
    CHOOSE r \in { Opened(c, tail, lfh, indexContent, index,
                          IF lfh.kind = "lfh" /\ lfh.filename # NameIndex
                          THEN buildIndexOfPath(c) ELSE Absent)
                   : index \in {IndexOf(indexContent)} } : TRUE

OpenFromHeader(zstdLoaded, c, tail, lfh) ==
    CHOOSE r \in { OpenFromContent(c, tail, lfh, indexContent)
                   : indexContent \in {IndexContentOf(zstdLoaded, c, lfh)} } : TRUE

OpenFromTail(zstdLoaded, c, tail) ==
    CHOOSE r \in { OpenFromHeader(zstdLoaded, c, tail, lfh)
                   : lfh \in {HeaderOf(c, tail)} } : TRUE

SingleOpen(zstdLoaded, c) ==
    CHOOSE r \in { OpenFromTail(zstdLoaded, c, tail) : tail \in {TailOf(c)} } : TRUE

\* the three reads of Single3tzArchive.getFile, each made once
SingleLookup(h, path) ==
    IF ~h.hasIndex THEN Raise("AttributeError")
    ELSE IF IndexLen(h.index) = 0 THEN NoneVal
    ELSE findLocalFileHeaderOffsetInIndex(h.index, path)

SingleHeader(c, offset) ==
    IF offset.kind = "int" THEN getLocalFileHeaderAtOffset(c.bytes, offset.v) ELSE Absent

SinglePayload(c, path, lfh2) ==
    IF lfh2.kind = "lfh" /\ lfh2.filename = path
    THEN getRawFileContentsFromLocalFileHeader(c.bytes, lfh2.pos, lfh2)
    ELSE Absent

\* handle.getFile(path): what the caller gets and where the file object is left
Fetched(h, path, offset, lfh2, raw) ==
    [ret |-> IF offset.kind # "int" THEN offset
             ELSE IF lfh2.kind = "raise" THEN Raise(lfh2.err)
             ELSE IF lfh2.filename # path THEN NoneVal
             ELSE IF raw.kind = "raise" THEN Raise(raw.err)
             ELSE ServedContents(raw.data,
                                 contentTypeFromFileExtension(Suffix(lfh2.filename)),
                                 raw.compMethod, raw.uncompSize),
     pos |-> IF raw.kind # "absent" THEN raw.pos
             ELSE IF lfh2.kind # "absent" THEN lfh2.pos
             ELSE h.pos]

FetchFromHeader(h, c, path, offset, lfh2) ==
    CHOOSE r \in { Fetched(h, path, offset, lfh2, raw)
                   : raw \in {SinglePayload(c, path, lfh2)} } : TRUE

FetchFromOffset(h, c, path, offset) ==
    CHOOSE r \in { FetchFromHeader(h, c, path, offset, lfh2)
                   : lfh2 \in {SingleHeader(c, offset)} } : TRUE

SingleGetFile(h, c, path) ==
    CHOOSE r \in { FetchFromOffset(h, c, path, offset)
                   : offset \in {SingleLookup(h, path)} } : TRUE

(***************************************************************************)
(* getFile of the two handlers.  archives is self.archives: archive path   *)
(* -> [id, h], id telling the objects apart (the n-th Single3tzArchive the *)
(* handler made has id n).  The result names what getFile returned or      *)
(* raised, the new self.archives, the paths it opened and whether the      *)
(* process ended.                                                          *)
(***************************************************************************)
GetFileResult(ret, archives, newPaths, exit) ==
    [ret |-> ret, archives |-> archives, opened |-> newPaths, exit |-> exit]

\* self.archives[key].getFile(innerPath), the handle moving its file object;
\* a .json inner path of the 3tz handler goes through stripMaxarContent3tz
FetchFromArchive(zstdLoaded, files, archives, newPaths, key, innerPath, strip) ==
    CHOOSE r \in
        { GetFileResult(IF strip /\ got.ret.kind # "raise"
                        THEN stripMaxarContent3tz(zstdLoaded, got.ret) ELSE got.ret,
                        [archives EXCEPT ![key].h.pos = got.pos], newPaths, FALSE)
          : got \in {SingleGetFile(archives[key].h, FileAt(files, key), innerPath)} } : TRUE

\* self.archives[path3tz] = Single3tzArchive(path3tz), unless it exits
FetchFromNew(zstdLoaded, files, archives, nextId, key, innerPath, strip, made) ==
    IF made.exit THEN GetFileResult(Raise("SystemExit"), archives, <<key>>, TRUE)
    ELSE FetchFromArchive(zstdLoaded, files,
                          [p \in DOMAIN archives \cup {key} |->
                              IF p = key THEN [id |-> nextId, h |-> made.handle]
                              ELSE archives[p]],
                          <<key>>, key, innerPath, strip)

\* a getFile that constructs a Single3tzArchive for every request
FetchAlwaysOpening(zstdLoaded, files, archives, nextId, key, innerPath, strip) ==
    CHOOSE r \in
        { FetchFromNew(zstdLoaded, files, archives, nextId, key, innerPath, strip, made)
          : made \in {SingleOpen(zstdLoaded, FileAt(files, key))} } : TRUE

\* lines 416-427 and 230-236: the archive of the dictionary, or a new one
FetchThroughCache(zstdLoaded, files, archives, nextId, key, innerPath, strip) ==
    IF key \in DOMAIN archives
    THEN FetchFromArchive(zstdLoaded, files, archives, <<>>, key, innerPath, strip)
    ELSE CHOOSE r \in
             { FetchFromNew(zstdLoaded, files, archives, nextId, key, innerPath, strip, made)
               : made \in {SingleOpen(zstdLoaded, FileAt(files, key))} } : TRUE

\* Serve3tzHandler.getFile(path)
Serve3tzGetFile(zstdLoaded, files, archives, nextId, path) ==
    LET match == reMatch({Ext3tz, ExtZip}, path)
    IN  IF match.kind = "None" THEN GetFileResult(NoneVal, archives, <<>>, FALSE)
        ELSE FetchThroughCache(zstdLoaded, files, archives, nextId, match.archive,
                               match.inner, EndsWith(match.inner, ExtJson))

\* os.path.join(a, b)
JoinPath(a, b) ==
    IF StartsWith(b, <<47>>) THEN b
    ELSE IF a = <<>> \/ EndsWith(a, <<47>>) THEN a \o b
    ELSE a \o <<47>> \o b

\* rtp.with_name("cesium_" + rtp.name) of "tileset.json"
CesiumRootTilesetPath ==
    <<99, 101, 115, 105, 117, 109, 95>> \o DefaultInnerPath

\* isTerrainPack(filepath), file being what is at filepath
isTerrainPack(filepath, file) ==
    IF ~EndsWith(filepath, ExtJson) THEN FALSE
    ELSE LET parsed == JsonLoads(file.bytes)
         IN  /\ parsed.kind = "object"
             /\ JsonGet(parsed, KeyRequired).kind = "list"
             /\ \E i \in 1..Len(JsonGet(parsed, KeyRequired).v) :
                   JsonGet(parsed, KeyRequired).v[i] = MAXAR_content_3tz

\* rewriteTerrainPack and rewriteTerrainPackDropVectorLayers of a document
\* without the key "extensions": doc["extensions"] raises where nothing
\* before it did, and the except clause returns bytes()
rewriteTerrainPack(file) == <<>>

\* ServeFromDirectoryHandler.getFile(path), self.rootTilesetPath being
\* "tileset.json"
ServeFromDirectoryGetFile(zstdLoaded, directory, files, archives, nextId, fullpath) ==
    LET wasCesiumRoot == fullpath = JoinPath(directory, CesiumRootTilesetPath)
        path == IF wasCesiumRoot THEN JoinPath(directory, DefaultInnerPath) ELSE fullpath
        match == reMatch({Ext3tz}, path)
    IN  IF match.kind # "None"
        THEN FetchThroughCache(zstdLoaded, files, archives, nextId, match.archive,
                               IF match.inner = <<>> THEN DefaultInnerPath ELSE match.inner,
                               FALSE)
        ELSE IF path \in DOMAIN files
        THEN LET filecontents == IF isTerrainPack(path, files[path])
                                 THEN rewriteTerrainPack(files[path])
                                 ELSE files[path].bytes
             IN  GetFileResult(ServedContents(filecontents,
                                              contentTypeFromFileExtension(Suffix(path)),
                                              ZIP_COMPRESSION_METHOD_STORE, Len(filecontents)),
                               archives, <<>>, FALSE)
        ELSE GetFileResult(NoneVal, archives, <<>>, FALSE)
(***************************************************************************)
(* do_GET.  A response is what the handler did to the connection: the     *)
(* codes of its send_response calls in order, each a status line in the   *)
(* header buffer; the headers of its send_header calls; whether            *)
(* end_headers sent the buffer; the body written; the exception that left  *)
(* do_GET, "none" when none; and what getFile returned.  The Server and    *)
(* Date headers send_response adds are left out.                           *)
(***************************************************************************)
Response(status, headers, ended, body, raised, file) ==
    [kind |-> "response", status |-> status, headers |-> headers, ended |-> ended,
     body |-> body, raised |-> raised, file |-> file]

Header(name, value) == [name |-> name, value |-> value]

TemplateFilename == <<51, 116, 115, 83, 110, 105, 112, 112, 101, 116, 46, 106, 115>>

\* the branch of "/" (3ts.py:251-267, 431-446)
IndexPage ==
    Response(<<200>>,
             <<Header("Access-Control-Allow-Origin", "*"), Header("Content-type", "text/html")>>,
             TRUE,
             <<60, 33, 100, 111, 99, 116, 121, 112, 101, 32, 104, 116, 109, 108, 62>>
             \o <<60, 109, 101, 116, 97, 32, 99, 104, 97, 114, 115, 101, 116, 61, 34, 85, 84, 70, 45, 56, 34, 62, 60, 109, 101, 116, 97, 32, 104, 116, 116, 112, 45, 101, 113, 117, 105, 118, 61, 34, 88, 45, 85, 65, 45, 67, 111, 109, 112, 97, 116, 105, 98, 108, 101, 34, 32, 99, 111, 110, 116, 101, 110, 116, 61, 34, 73, 69, 61, 101, 100, 103, 101, 34, 62, 60, 109, 101, 116, 97, 32, 110, 97, 109, 101, 61, 34, 118, 105, 101, 119, 112, 111, 114, 116, 34, 32, 99, 111, 110, 116, 101, 110, 116, 61, 34, 119, 105, 100, 116, 104, 61, 100, 101, 118, 105, 99, 101, 45, 119, 105, 100, 116, 104, 44, 32, 105, 110, 105, 116, 105, 97, 108, 45, 115, 99, 97, 108, 101, 61, 49, 44, 32, 109, 97, 120, 105, 109, 117, 109, 45, 115, 99, 97, 108, 101, 61, 49, 44, 32, 109, 105, 110, 105, 109, 117, 109, 45, 115, 99, 97, 108, 101, 61, 49, 44, 32, 117, 115, 101, 114, 45, 115, 99, 97, 108, 97, 98, 108, 101, 61, 110, 111, 34, 62>>
             \o <<60, 115, 116, 121, 108, 101, 62, 64, 105, 109, 112, 111, 114, 116, 32, 117, 114, 108, 40, 114, 101, 115, 111, 117, 114, 99, 101, 115, 47, 67, 101, 115, 105, 117, 109, 47, 98, 117, 99, 107, 101, 116, 46, 99, 115, 115, 41, 59, 60, 47, 115, 116, 121, 108, 101, 62>>
             \o <<60, 115, 99, 114, 105, 112, 116, 32, 115, 114, 99, 61, 34, 114, 101, 115, 111, 117, 114, 99, 101, 115, 47, 67, 101, 115, 105, 117, 109, 47, 67, 101, 115, 105, 117, 109, 46, 106, 115, 34, 62, 60, 47, 115, 99, 114, 105, 112, 116, 62>>
             \o <<60, 100, 105, 118, 32, 105, 100, 61, 34, 99, 101, 115, 105, 117, 109, 67, 111, 110, 116, 97, 105, 110, 101, 114, 34, 32, 99, 108, 97, 115, 115, 61, 34, 102, 117, 108, 108, 83, 105, 122, 101, 34, 62, 60, 47, 100, 105, 118, 62>>
             \o <<60, 115, 99, 114, 105, 112, 116, 32, 115, 114, 99, 61, 34, 114, 101, 115, 111, 117, 114, 99, 101, 115, 47>> \o TemplateFilename \o <<34, 32, 100, 101, 102, 101, 114, 62, 60, 47, 115, 99, 114, 105, 112, 116, 62>>
             \o <<60, 47, 98, 111, 100, 121, 62, 60, 47, 104, 116, 109, 108, 62>>,
             "none", NotCalled)

\* lines 296-312 and 474-490: the file was found
SendFile(zstdLoaded, acceptHeader, file) ==
    LET encoding ==
            IF /\ file.compMethod = ZIP_COMPRESSION_METHOD_DEFLATE
               /\ isAcceptedContentEncoding(acceptHeader, <<100, 101, 102, 108, 97, 116, 101>>)
            THEN <<Header("Content-Encoding", "deflate")>>
            ELSE IF /\ file.compMethod = ZIP_COMPRESSION_METHOD_ZSTD
                    /\ isAcceptedContentEncoding(acceptHeader, <<122, 115, 116, 100>>)
            THEN <<Header("Content-Encoding", "zstd")>>
            ELSE <<>>
        data == IF encoding = <<>> /\ file.compMethod # ZIP_COMPRESSION_METHOD_STORE
                THEN decompressFileContents(zstdLoaded, file.compMethod,
                                            file.uncompSize, file.data)
                ELSE Bytes(file.data)
    IN  IF data.kind = "raise"
        THEN Response(<<200>>, <<>>, FALSE, <<>>, data.err, file)
        ELSE Response(<<200>>,
                      encoding \o
                      <<Header("Content-type", file.contentType),
                        Header("Access-Control-Allow-Headers", "Content-Type,Authorization"),
                        Header("Access-Control-Allow-Methods", "GET,PUT,POST,DELETE")>>,
                      TRUE, data.v, "none", file)

\* lines 293-317 and 472-495, file being what getFile returned or raised:
\* send_response(200) comes before getFile is called
AnswerWith(zstdLoaded, acceptHeader, file) ==
    IF file.kind = "raise" THEN Response(<<200>>, <<>>, FALSE, <<>>, file.err, file)
    ELSE IF file.kind = "FileContents" THEN SendFile(zstdLoaded, acceptHeader, file)
    ELSE Response(<<200, 404>>, <<Header("Content-type", "application/json")>>,
                  TRUE, <<>>, "none", file)

\* the paths of the branches that read the static resources
IsStaticPath(path) == path = <<47, 102, 97, 118, 105, 99, 111, 110, 46, 105, 99, 111>> \/ StartsWith(path, <<47, 114, 101, 115, 111, 117, 114, 99, 101, 115, 47>>)

Directory == <<47, 100>>

\* what do_GET hands to getFile
GetFilePath(kind, path) ==
    IF kind = "3tz" THEN PySlice(path, 1, Len(path))
    ELSE JoinPath(Directory, PySlice(path, 1, Len(path)))

\* self.getFile(...) of the handler of the given kind
HandlerGetFile(kind, zstdLoaded, files, archives, nextId, path) ==
    IF kind = "3tz"
    THEN Serve3tzGetFile(zstdLoaded, files, archives, nextId, GetFilePath(kind, path))
    ELSE ServeFromDirectoryGetFile(zstdLoaded, Directory, files, archives, nextId,
                                   GetFilePath(kind, path))
(***************************************************************************)
(* SpecServe: a handler and the files it serves, then GET requests one at  *)
(* a time.  The 3tz handler was constructed on r.3tz and has changed to    *)
(* its directory, so that the paths it opens are relative to it; the       *)
(* directory handler serves the same files below /d.  The requests are     *)
(* those of the "/" branch and of the last branch of do_GET.               *)
(***************************************************************************)
MaxRequests == 2

RootPath == <<114, 46, 51, 116, 122>>
SecondPath == <<116, 47, 115, 46, 51, 116, 122>>

\* a deflate stream of text, as the run-length streams stand for it
Deflated(text) ==
    [i \in 1..(2 * Len(text)) |-> IF i % 2 = 1 THEN 1 ELSE text[i \div 2]]

\* every document written without blanks, those with both lists also as
\* json.dumps writes them, and a text that is not JSON: "{"
StoredTexts ==
    {JsonCompact(d) : d \in StoredDocuments}
    \cup {JsonDumps(d) : d \in {s \in StoredDocuments :
                                   s.kind = "object" /\ Len(s.members) = 3}}
    \cup {<<123>>}

\* the directory handler hands archive entries on as they are: it is given
\* a tileset with the token, one without the lists, and the text "{"
TextsOf(kind) ==
    IF kind = "3tz" THEN StoredTexts
    ELSE {JsonCompact(TilesetWithToken), JsonCompact(JsonObject(<<ErrorMember>>)), <<123>>}

PlainFile(bytes) == [exists |-> TRUE, isZip |-> FALSE, bytes |-> bytes, infolist |-> <<>>]

\* the files, by their path below the served directory; text is the tileset
RootMembers(text) ==
    <<Member(NameA, 8, 3, <<3, 120>>), Member(NameJson, 0, Len(text), text),
      Member(NameQ2, 93, 2, <<2, 121>>)>>

SecondMembers(text) ==
    <<Member(NameA, 0, 2, <<104, 105>>), Member(NameJson, 8, Len(text), Deflated(text)),
      Member(NameQ0, 8, 5, <<3, 120>>)>>

DiskFiles(text) ==
    (RootPath :> ZipContainer(<<>>, With3tzIndex(<<>>, RootMembers(text)), <<>>))
    @@ (SecondPath :> ZipContainer(<<>>, With3tzIndex(<<>>, SecondMembers(text)), <<>>))
    @@ (<<122, 46, 122, 105, 112>> :> ZipContainer(<<>>, <<MemberA>>, <<>>))
    @@ (<<107, 46, 122, 105, 112>> :> ZipContainer(<<>>, <<MemberA, MemberEncrypted>>, <<>>))
    @@ (<<120, 46, 98, 105, 110>> :> PlainFile(<<1, 2, 3>>))
    @@ (<<116, 46, 106, 115, 111, 110>> :> PlainFile(text))

Disk(kind, files) ==
    IF kind = "3tz" THEN files
    ELSE [p \in {JoinPath(Directory, r) : r \in DOMAIN files} |->
             files[CHOOSE r \in DOMAIN files : JoinPath(Directory, r) = p]]

AcceptNone == <<>>
AcceptGzipDeflate == <<103, 122, 105, 112, 44, 32, 100, 101, 102, 108, 97, 116, 101>>   \* "gzip, deflate"
AcceptDeflateQ0 == <<100, 101, 102, 108, 97, 116, 101, 59, 113, 61, 48>>   \* "deflate;q=0"
AcceptDeflateBlankQ == <<103, 122, 105, 112, 44, 32, 100, 101, 102, 108, 97, 116, 101, 32, 59, 113, 61, 48, 46, 53>>   \* "gzip, deflate ;q=0.5"
AcceptCapitalDeflate == <<68, 101, 102, 108, 97, 116, 101>>   \* "Deflate"
AcceptZstd == <<122, 115, 116, 100>>   \* "zstd"
AcceptGzip == <<103, 122, 105, 112>>   \* "gzip"
AcceptBrDeflateZstd == <<98, 114, 44, 32, 100, 101, 102, 108, 97, 116, 101, 44, 32, 122, 115, 116, 100>>   \* "br, deflate, zstd"

AcceptHeaders ==
    { AcceptNone, <<AcceptGzipDeflate>>, <<AcceptDeflateQ0>>, <<AcceptDeflateBlankQ>>,
      <<AcceptCapitalDeflate>>, <<AcceptZstd>>, <<AcceptGzip, AcceptBrDeflateZstd>> }

PathPage == <<47>>   \* "/"
PathRootA == <<47, 114, 46, 51, 116, 122, 47, 97>>   \* "/r.3tz/a"
PathRootJson == <<47, 114, 46, 51, 116, 122, 47, 98, 47, 99, 46, 106, 115, 111, 110>>   \* "/r.3tz/b/c.json"
PathRootQ2 == <<47, 114, 46, 51, 116, 122, 47, 113, 50>>   \* "/r.3tz/q2"
PathRootQ0 == <<47, 114, 46, 51, 116, 122, 47, 113, 48>>   \* "/r.3tz/q0"
PathSecondA == <<47, 116, 47, 115, 46, 51, 116, 122, 47, 97>>   \* "/t/s.3tz/a"
PathSecondJson == <<47, 116, 47, 115, 46, 51, 116, 122, 47, 98, 47, 99, 46, 106, 115, 111, 110>>   \* "/t/s.3tz/b/c.json"
PathSecondQ0 == <<47, 116, 47, 115, 46, 51, 116, 122, 47, 113, 48>>   \* "/t/s.3tz/q0"
PathNoArchive == <<47, 110, 46, 51, 116, 122, 47, 97>>   \* "/n.3tz/a"
PathZipA == <<47, 122, 46, 122, 105, 112, 47, 97>>   \* "/z.zip/a"
PathBadZipA == <<47, 107, 46, 122, 105, 112, 47, 97>>   \* "/k.zip/a"
PathPlain == <<47, 120, 46, 98, 105, 110>>   \* "/x.bin"
PathPlainJson == <<47, 116, 46, 106, 115, 111, 110>>   \* "/t.json"
PathCesiumRoot == <<47, 99, 101, 115, 105, 117, 109, 95, 116, 105, 108, 101, 115, 101, 116, 46, 106, 115, 111, 110>>   \* "/cesium_tileset.json"

\* the paths of entries stored with a compression method, and of one stored
EncodedPaths == {PathRootA, PathRootQ2, PathSecondA, PathSecondJson, PathSecondQ0}

OtherPaths ==
    { PathPage, PathRootJson, PathRootQ0, PathNoArchive, PathZipA, PathBadZipA,
      PathPlain, PathPlainJson, PathCesiumRoot }

Requests ==
    [path : EncodedPaths, accept : AcceptHeaders]
    \cup [path : OtherPaths, accept : {AcceptNone}]
    \cup [path : {PathRootJson}, accept : {<<AcceptGzipDeflate>>}]

\* the archive path and inner path getFile makes of the request path
ArchiveNamed(kind, path) ==
    IF kind = "3tz" THEN reMatch({Ext3tz, ExtZip}, GetFilePath(kind, path))
    ELSE IF GetFilePath(kind, path) = JoinPath(Directory, CesiumRootTilesetPath)
    THEN reMatch({Ext3tz}, JoinPath(Directory, DefaultInnerPath))
    ELSE reMatch({Ext3tz}, GetFilePath(kind, path))

\* n counts the requests; missed keeps the archive paths for which a request
\* has ended in None
NoRequest == [n |-> 0, path |-> <<>>, accept |-> <<>>, missed |-> {}]

Missed(kind, path, ret) ==
    IF ret.kind = "None" /\ ArchiveNamed(kind, path).kind = "match"
    THEN {ArchiveNamed(kind, path).archive} ELSE {}

\* Serve3tzHandler.__init__ (3ts.py:381-405) on r.3tz, which opens the root
\* archive, or ServeFromDirectoryHandler.__init__ (203-212)
ServeInit ==
    /\ ArchIdle /\ LookupIdle /\ CodecIdle /\ HarnessIdle("serve")
    /\ \E kind \in {"3tz", "directory"} :
       \E text \in TextsOf(kind) :
       \E files \in {DiskFiles(text)} :
          /\ hKind = kind
          /\ hFiles = Disk(kind, files)
          /\ hArchives = IF kind = "3tz"
                         THEN (RootPath :> [id |-> 1,
                                            h |-> SingleOpen(TRUE, files[RootPath]).handle])
                         ELSE <<>>
          /\ hOpened = IF kind = "3tz" THEN <<RootPath>> ELSE <<>>
    /\ hRequest = NoRequest
    /\ hResponse = NotCalled
    /\ hExited = FALSE

\* do_GET of either handler; an exit(-1) inside it ends the process, any
\* other exception leaves the cache as getFile left it
Answer(kind, req) ==
    /\ hKind = kind /\ ~hExited /\ hRequest.n < MaxRequests
    /\ ~IsStaticPath(req.path)
    /\ IF req.path = PathPage
       THEN /\ hResponse' = IndexPage
            /\ hRequest' = [n |-> hRequest.n + 1, path |-> req.path,
                            accept |-> req.accept, missed |-> hRequest.missed]
            /\ UNCHANGED <<hArchives, hOpened, hExited>>
       ELSE \E got \in {HandlerGetFile(kind, zstd, hFiles, hArchives,
                                       Len(hOpened) + 1, req.path)} :
               /\ hRequest' = [n |-> hRequest.n + 1, path |-> req.path,
                               accept |-> req.accept,
                               missed |-> hRequest.missed
                                          \cup Missed(kind, req.path, got.ret)]
               /\ hArchives' = got.archives
               /\ hOpened' = hOpened \o got.opened
               /\ hExited' = got.exit
               /\ hResponse' = AnswerWith(zstd, req.accept, got.ret)
    /\ UNCHANGED <<hKind, hFiles, lookupVars, archVars, codecVars>>
    /\ HarnessStill("serve")

\* Serve3tzHandler.do_GET: what it raises reaches the server
Serve3tzDoGet(req) == Answer("3tz", req)

\* ServeFromDirectoryHandler.do_GET: what it raises, exit(-1) apart, is logged
ServeFromDirectoryDoGet(req) == Answer("directory", req)

ServeNext ==
    \/ \E req \in Requests : Serve3tzDoGet(req)
    \/ \E req \in Requests : ServeFromDirectoryDoGet(req)

SpecServe == ServeInit /\ [][ServeNext]_vars




(***************************************************************************)
(* SpecHandles: several Single3tzArchive objects, each with the file       *)
(* object its __init__ opened (3ts.py:337), and getFile calls on them      *)
(* (3ts.py:359-377) that advance one file operation at a time: the lookup, *)
(* file.seek(offset) and file.read of getLocalFileHeaderAtOffset           *)
(* (archive3tz.py:128-131), the tell and seek of                           *)
(* seekToFileContentsStartFromLocalFileHeader (63-66), and the file.read   *)
(* of getRawFileContentsFromLocalFileHeader (69-79).  A handle is in one   *)
(* getFile call at a time; the steps of different handles interleave.      *)
(***************************************************************************)
MaxHandles == 2
MaxFetches == 2

Handles == 1..MaxHandles

\* one file object for all handles
ReaderShared(h) == 1

\* self.file of handle h: the file object its own __init__ opened
ReaderOf(h) == h

ReaderPos(h) == tHandle[ReaderOf(h)].pos

ReaderBytes(h) == tFile[ReaderOf(h)].bytes

\* the file object of h moved to pos
Moved(h, pos) == [tHandle EXCEPT ![ReaderOf(h)].pos = pos]

\* "met" tells whether another handle took a step during the call
NoFetch ==
    [pc |-> "idle", path |-> <<>>, offset |-> NoneVal, lfh2 |-> Absent,
     ret |-> NotCalled, met |-> FALSE]

InCall(f) == f.pc \notin {"idle", "done"}

\* handle h takes a step that leaves its call as f
Stepped(h, f) ==
    [j \in Handles |-> IF j = h THEN f
                       ELSE IF InCall(tFetch[j]) THEN [tFetch[j] EXCEPT !.met = TRUE]
                       ELSE tFetch[j]]

Returned(f, ret) == [f EXCEPT !.pc = "done", !.ret = ret]

FetchFrame ==
    /\ UNCHANGED <<tFile, lookupVars, archVars, codecVars>>
    /\ HarnessStill("fetch")

HandlePaths == {NameA, NameJson, NameQ0}

\* two objects on r.3tz, or one on r.3tz and one on t/s.3tz
HandlesInit ==
    /\ ArchIdle /\ LookupIdle /\ CodecIdle /\ HarnessIdle("fetch")
    /\ \E files \in {DiskFiles(JsonCompact(TilesetWithToken))} :
       \E other \in {RootPath, SecondPath} :
          /\ tFile = [h \in Handles |-> IF h = 1 THEN files[RootPath] ELSE files[other]]
          /\ tHandle = [h \in Handles |->
                           SingleOpen(TRUE, IF h = 1 THEN files[RootPath]
                                            ELSE files[other]).handle]
    /\ tFetch = [h \in Handles |-> NoFetch]
    /\ tCount = [h \in Handles |-> 0]

\* getFile(path) up to the lookup in self.index (3ts.py:360-365)
BeginGetFile(h, path) ==
    /\ ~InCall(tFetch[h]) /\ tCount[h] < MaxFetches
    /\ tCount' = [tCount EXCEPT ![h] = @ + 1]
    /\ \E offset \in {SingleLookup(tHandle[h], path)} :
          tFetch' = Stepped(h, IF offset.kind = "int"
                               THEN [NoFetch EXCEPT !.pc = "seek", !.path = path,
                                                    !.offset = offset]
                               ELSE Returned([NoFetch EXCEPT !.path = path], offset))
    /\ UNCHANGED tHandle
    /\ FetchFrame

\* file.seek(offset) (archive3tz.py:130)
SeekHeader(h) ==
    /\ tFetch[h].pc = "seek"
    /\ tHandle' = Moved(h, tFetch[h].offset.v)
    /\ tFetch' = Stepped(h, [tFetch[h] EXCEPT !.pc = "read"])
    /\ UNCHANGED tCount
    /\ FetchFrame

\* file.read(LOCALFILEHEADERSIZE + 100), the dictionary, and the comparison
\* of its filename with path (archive3tz.py:131-147, 3ts.py:368-371)
ReadHeader(h) ==
    /\ tFetch[h].pc = "read"
    /\ \E lfh2 \in {getLocalFileHeaderAtOffset(ReaderBytes(h), ReaderPos(h))} :
          /\ tHandle' = Moved(h, lfh2.pos)
          /\ tFetch' = Stepped(h,
                IF lfh2.kind = "raise" THEN Returned(tFetch[h], Raise(lfh2.err))
                ELSE IF lfh2.filename # tFetch[h].path
                THEN Returned([tFetch[h] EXCEPT !.lfh2 = lfh2], NoneVal)
                ELSE [tFetch[h] EXCEPT !.pc = "seekContents", !.lfh2 = lfh2])
    /\ UNCHANGED tCount
    /\ FetchFrame

\* seekToFileContentsStartFromLocalFileHeader(self.file, lfh2); a negative
\* position makes file.seek raise
SeekContents(h) ==
    /\ tFetch[h].pc = "seekContents"
    /\ \E target \in {seekToFileContentsStartFromLocalFileHeader(ReaderPos(h),
                                                                tFetch[h].lfh2)} :
          IF target < 0
          THEN /\ tFetch' = Stepped(h, Returned(tFetch[h], Raise("OSError")))
               /\ UNCHANGED tHandle
          ELSE /\ tHandle' = Moved(h, target)
               /\ tFetch' = Stepped(h, [tFetch[h] EXCEPT !.pc = "readContents"])
    /\ UNCHANGED tCount
    /\ FetchFrame

\* file.read(filesize), the length test and the FileContents returned
\* (archive3tz.py:72-79, 3ts.py:376-377)
ReadContents(h) ==
    /\ tFetch[h].pc = "readContents"
    /\ \E rawContents \in {PySlice(ReaderBytes(h), ReaderPos(h),
                                  ReaderPos(h) + tFetch[h].lfh2.compressedSize)} :
          /\ tHandle' = Moved(h, ReaderPos(h) + Len(rawContents))
          /\ tFetch' = Stepped(h, Returned(tFetch[h],
                IF Len(rawContents) # tFetch[h].lfh2.compressedSize
                THEN Raise("Exception")
                ELSE ServedContents(rawContents,
                                    contentTypeFromFileExtension(
                                        Suffix(tFetch[h].lfh2.filename)),
                                    tFetch[h].lfh2.compressionMethod,
                                    tFetch[h].lfh2.uncompressedSize)))
    /\ UNCHANGED tCount
    /\ FetchFrame

HandlesNext ==
    \/ \E h \in Handles, path \in HandlePaths : BeginGetFile(h, path)
    \/ \E h \in Handles : SeekHeader(h)
    \/ \E h \in Handles : ReadHeader(h)
    \/ \E h \in Handles : SeekContents(h)
    \/ \E h \in Handles : ReadContents(h)

SpecHandles == HandlesInit /\ [][HandlesNext]_vars

(***************************************************************************)
(* Claims about the search                                                 *)
(***************************************************************************)
sKey == md5halves(sPath)
sEntries == IndexEntries(sIndex)
KeyHolders == {i \in 1..Len(sEntries) : sEntries[i].lo = sKey.lo /\ sEntries[i].hi = sKey.hi}
SortedLookup == findLocalFileHeaderOffsetInIndex(PackIndex(SortEntries(sEntries)), sPath)

\* C2: on an index sorted by (lo, hi) that holds no entry with the filepath's
\* MD5 key, the search returns none and reads only entry positions 0..N-1.
C2_LookupMissReturnsNone ==
    (IsSortedEntries(sEntries) /\ KeyHolders = {}) =>
        /\ \A k \in 1..Len(probed) : probed[k] \in 0..(IndexLen(sIndex) - 1)
        /\ spc = "done" => sRet = NoneVal

\* C3 (as stated): the lookup on any index content equals the lookup on the
\* sorted index, or is a miss or a rejection when the index is unsorted; a
\* result that is an offset is the offset of an entry with the filepath's key.
C3_LookupPurity ==
    spc = "done" =>
        /\ \/ sRet = SortedLookup
           \/ ~IsSortedEntries(sEntries) /\ sRet.kind \in {"None", "raise"}
        /\ sRet.kind = "int" =>
              \E i \in KeyHolders : FromLE(sEntries[i].off) = sRet.v

\* C3 (amended): the same, the equality with the sorted lookup being claimed
\* only for an index that holds at most one entry with the filepath's key.
C3_LookupPurityUniqueKey ==
    spc = "done" =>
        /\ Cardinality(KeyHolders) <= 1 =>
              \/ sRet = SortedLookup
              \/ ~IsSortedEntries(sEntries) /\ sRet.kind \in {"None", "raise"}
        /\ sRet.kind = "int" =>
              \E i \in KeyHolders : FromLE(sEntries[i].off) = sRet.v

\* an unsorted index with one holder of the key, on which the search found it
C3_Witness ==
    /\ spc = "done"
    /\ ~IsSortedEntries(sEntries)
    /\ Cardinality(KeyHolders) = 1
    /\ Len(sEntries) = MaxIndexEntries
    /\ sRet.kind = "int"
    /\ sRet = SortedLookup

(***************************************************************************)
(* Claims about decompression                                              *)
(***************************************************************************)
\* C6: for each of Store, Deflate, Zstd (0x5D) and legacy Zstd (0x17), every
\* expected size N and every input x, a call of decompressFileContents that
\* returns without error returns exactly N bytes.
C6_DecompressionLengthLaw ==
    (/\ dMethod \in {ZIP_COMPRESSION_METHOD_STORE, ZIP_COMPRESSION_METHOD_DEFLATE,
                     ZIP_COMPRESSION_METHOD_ZSTD, ZIP_COMPRESSION_METHOD_ZSTD_OLD}
     /\ dOut.kind = "bytes")
        => Len(dOut.v) = dSize

(***************************************************************************)
(* Claims about archives and handles                                       *)
(***************************************************************************)
TailOps == {"open", "getSingleFile"}
FetchOps == {"getFile", "getSingleFile"}
PayloadReturned == last.ret.kind \in {"FileContents", "bytes"}

BuiltIndex == buildIndex(fs.infolist)
LookupBuilt(F) == findLocalFileHeaderOffsetInIndex(readIndex(BuiltIndex.v).v, F)

\* C1 (as stated): for every ZIP that buildIndex accepts and every filename F
\* in it, the lookup of F in the index built from the ZIP returns the offset
\* of F's local file header.
C1_IndexRoundTrip ==
    (fs.isZip /\ BuiltIndex.kind = "bytes") =>
        \A i \in 1..Len(fs.infolist) :
            LookupBuilt(fs.infolist[i].filename) = IntVal(fs.infolist[i].header_offset)

\* C1 (amended): for every ZIP that buildIndex accepts and every entry of it
\* that is neither a directory nor @3dtilesIndex1@, the lookup of the entry's
\* filename F returns the local-file-header offset of an entry named F (F's
\* own when the name occurs once).
C1_IndexRoundTripOfIndexedNames ==
    (fs.isZip /\ BuiltIndex.kind = "bytes") =>
        \A i \in 1..Len(fs.infolist) :
            IsIndexed(fs.infolist[i]) =>
                \E j \in 1..Len(fs.infolist) :
                    /\ fs.infolist[j].filename = fs.infolist[i].filename
                    /\ LookupBuilt(fs.infolist[i].filename)
                          = IntVal(fs.infolist[j].header_offset)

\* a plain ZIP with a directory and two files, opened: the handle's index is
\* the one buildIndex made of it
C1_Witness ==
    /\ opened /\ last.op = "open"
    /\ last.lfh.kind = "lfh" /\ last.lfh.filename # NameIndex
    /\ handle.hasIndex /\ handle.index = BuiltIndex.v
    /\ \E i \in 1..Len(fs.infolist) : IsDir(fs.infolist[i])
    /\ Cardinality({i \in 1..Len(fs.infolist) : IsIndexed(fs.infolist[i])}) >= 2

\* the filename field of the local file header that lies at offset X
FilenameAt(file, X) ==
    PySlice(file, X + LOCALFILEHEADERSIZE,
            X + LOCALFILEHEADERSIZE + FromLE(PySlice(file, X + 26, X + 28)))

\* C4: a fetch (getFile, getSingleFile) returns a payload only when the header
\* parsed at the looked-up offset names the requested path, and it does return
\* the payload when the header lying at that offset is the requested file's,
\* whatever the length of the filename.
C4_FilenameVerificationOnFetch ==
    last.op \in FetchOps =>
        /\ PayloadReturned =>
              last.lfh2.kind = "lfh" /\ last.lfh2.filename = last.path
        /\ (last.lfh2.kind = "lfh" /\ FilenameAt(fs.bytes, last.lfh2.at) = last.path)
              => PayloadReturned

PayloadStart(lfh) ==
    lfh.at + LOCALFILEHEADERSIZE + lfh.filenameLength + lfh.extraFieldLength

ReadAtPayloadStart(lfh, read) ==
    (lfh.kind = "lfh" /\ read.kind \in {"bytes", "raw"}) =>
        read.readAt = PayloadStart(lfh)

\* C5: the payload read that follows the parse of a local file header at
\* offset X starts at X + 30 + F + E, in archives of any size, also when fewer
\* than 130 bytes lie between X and the end of the archive.
C5_PayloadPosition ==
    /\ ReadAtPayloadStart(last.lfh, last.read)
    /\ ReadAtPayloadStart(last.lfh2, last.payload)

\* C7: a handle that was handed out holds an index: the payload of the trailing
\* entry when that entry is @3dtilesIndex1@, else the index buildIndex makes of
\* the ZIP; a failure of the open is not swallowed, and no fetch is made on a
\* handle without an index.
C7_OpenYieldsIndexedHandle ==
    /\ opened => handle.hasIndex
    /\ (opened /\ handle.hasIndex /\ last.op = "open") =>
          handle.index = IF last.lfh.filename = NameIndex THEN last.read.v
                         ELSE BuiltIndex.v
    /\ last.op = "open" => last.swallowed = "none"
    /\ last.op = "getFile" => handle.hasIndex

\* the tail window of a reader that starts at max(0, size - 320)
WindowStart(file) == Max(0, Len(file) - TailWindow)
Window(file) == PySlice(file, WindowStart(file), Len(file))
LastEocd(file) == RFind(file, WindowStart(file), ENDOFCENTRALDIRECTORY)

\* where, in the window, a central directory signature starts before the last
\* end-of-central-directory signature
DirectorySignaturesBefore(file) ==
    {i \in 0..(LastEocd(file) - 1) :
        \A j \in 1..4 : file[WindowStart(file) + i + j] = STARTOFCENTRALDIRECTORY[j]}

EntryBeforeEocd(file) ==
    IF DirectorySignaturesBefore(file) = {} THEN NoneVal
    ELSE parseCentralDirectoryEntry(
             PySlice(Window(file), SetMax(DirectorySignaturesBefore(file)), LastEocd(file)))

\* C8: on an archive shorter than 320 bytes the read of the trailing entry
\* starts at offset 0 and returns the entry it returns on longer archives: the
\* one between the last directory signature and the last EOCD signature.
C8_ShortArchives ==
    (last.op \in TailOps /\ fs.exists /\ Len(fs.bytes) < TailWindow) =>
        /\ last.cde.kind = "ok"
        /\ last.cde.cde = EntryBeforeEocd(fs.bytes)

\* C9: when the tail window holds an EOCD signature and a directory signature
\* before it, the entry parsed is the one at the last directory signature
\* before the last EOCD signature, whatever follows that EOCD signature.
C9_TrailingEntrySelection ==
    (/\ last.op \in TailOps /\ fs.exists /\ Len(fs.bytes) >= TailWindow
     /\ DirectorySignaturesBefore(fs.bytes) # {}) =>
        /\ last.cde.kind = "ok"
        /\ last.cde.cde = EntryBeforeEocd(fs.bytes)

\* C10: when the tail window holds no EOCD signature, or no directory signature
\* before it, the read of the trailing entry fails and the caller gets that
\* failure, not a none result that fails later as another error.
C10_MissingSignaturesFail ==
    (/\ last.op \in TailOps /\ fs.exists /\ Len(fs.bytes) >= TailWindow
     /\ DirectorySignaturesBefore(fs.bytes) = {}) =>
        /\ last.cde.kind = "raise"
        /\ last.ret = Raise(last.cde.err)

(***************************************************************************)
(* Claims about the resolution of a central directory entry                *)
(***************************************************************************)
IsZip64Record(t) == WellFormed(t) /\ t.tag = 1 /\ t.size = 8

\* the position of the first tuple with tag 0x0001 and size 8, if there is one
FirstZip64Record ==
    {i \in 1..Len(zTuples) :
        IsZip64Record(zTuples[i]) /\ \A j \in 1..(i - 1) : ~IsZip64Record(zTuples[j])}

\* C11: an entry whose relativeOffsetOfLocalHeader is 0xFFFFFFFF is resolved to
\* the header at the 8-byte offset of the first extra-field tuple with tag
\* 0x0001 and size 8, whatever tuples precede it; any other entry is resolved
\* to the header at relativeOffsetOfLocalHeader.
C11_Zip64OffsetResolution ==
    zpc = "resolved" =>
        IF zRel = <<255, 255, 255, 255>>
        THEN \A i \in FirstZip64Record :
                zOut = getLocalFileHeaderAtOffset(fs.bytes, FromLE(zTuples[i].payload))
        ELSE zOut = getLocalFileHeaderAtOffset(fs.bytes, FromLE(zRel))

\* a ZIP64 entry whose record comes last, after a tuple of another kind, and
\* which was resolved to the header of b/c.json at offset 331
C11_Witness ==
    /\ zpc = "resolved"
    /\ zRel = <<255, 255, 255, 255>>
    /\ MaxExtraTuples \in FirstZip64Record
    /\ zOut.kind = "lfh" /\ zOut.at = 331 /\ zOut.filename = NameJson

\* C12: when the entry's relativeOffsetOfLocalHeader is 0xFFFFFFFF and its extra
\* field holds no tuple with tag 0x0001 and size 8, the resolution of the local
\* file header fails with an error.
C12_Zip64RecordMissing ==
    (/\ zpc = "resolved"
     /\ zRel = <<255, 255, 255, 255>>
     /\ \A i \in 1..Len(zTuples) : ~IsZip64Record(zTuples[i]))
        => zOut.kind = "raise"

(***************************************************************************)
(* Claims about buildIndex                                                 *)
(***************************************************************************)
bInfolist == WithHeaderOffsets(bItems)

\* the entries left when directories and @3dtilesIndex1@ are filtered out
Remaining == {i \in 1..Len(bItems) : IsIndexed(bInfolist[i])}

\* the three conditions the validation rejects an entry for
Rejected(item) ==
    \/ \E k \in {0, 3, 5, 13} : Bit(item.flag_bits, k) = 1
    \/ item.compress_type \notin {0, 8, 93}
    \/ item.compress_size = 0 /\ item.file_size # 0

\* C13: buildIndex rejects the ZIP exactly when an entry that remains after the
\* filter has a disallowed flag bit, method or size pair; otherwise it emits
\* one 24-byte record per remaining entry, sorted ascending by (lo, hi).
C13_BuildIndexValidation ==
    bOut # NotCalled =>
        IF \E i \in Remaining : Rejected(bInfolist[i])
        THEN bOut.kind = "raise"
        ELSE /\ bOut.kind = "bytes"
             /\ Len(bOut.v) = 24 * Cardinality(Remaining)
             /\ IsSortedEntries(IndexEntries(bOut.v))
             /\ \A i \in Remaining :
                   \E k \in 1..Cardinality(Remaining) :
                       IndexEntries(bOut.v)[k] = IndexEntryOf(bInfolist[i])

(***************************************************************************)
(* Claims about the GLB reader                                             *)
(***************************************************************************)
gJsonLen == FromLE(PySlice(gBuffer, 12, 16))
gRest == PySlice(gBuffer, 20 + gJsonLen, Len(gBuffer))

GlbValid ==
    /\ Len(gBuffer) >= 20
    /\ PySlice(gBuffer, 0, 4) = GlbMagic
    /\ PySlice(gBuffer, 4, 8) = ToLE(2, 4)
    /\ PySlice(gBuffer, 16, 20) = ChunkTypeJson
    /\ gJsonLen # 0

\* a second chunk whose type is 0x004E4942 follows the first
HasBinChunk == Len(gRest) >= 8 /\ PySlice(gRest, 4, 8) = ChunkTypeBin

\* C14: on a GLB with valid magic, version 2 and a non-empty JSON first chunk,
\* getChunksFromBuffer returns bytes 20..20+jsonLen as the JSON, with the BIN
\* bytes when a second chunk of type 0x004E4942 is present (none counting as
\* the BIN of an empty chunk) and with no BIN in every other case; the
\* 4096-byte input with jsonLen 1024 gives a BIN of 3044 bytes.
C14_GlbBinChunk ==
    (gOut # NotCalled /\ GlbValid) =>
        /\ gOut.kind = "chunks"
        /\ gOut.jsondata = PySlice(gBuffer, 20, 20 + gJsonLen)
        /\ IF HasBinChunk
           THEN \/ gOut.bindata = [kind |-> "bytes",
                                   v |-> PySlice(gRest, 8, 8 + FromLE(PySlice(gRest, 0, 4)))]
                \/ FromLE(PySlice(gRest, 0, 4)) = 0 /\ gOut.bindata = NoneVal
           ELSE gOut.bindata = NoneVal
        /\ gBuffer = Glb4096 => Len(gOut.bindata.v) = 3044

(***************************************************************************)
(* Claims about the subtree reader                                         *)
(***************************************************************************)
uJsonLen == FromLE(PySlice(uBuffer, 8, 16))
uBinLen == FromLE(PySlice(uBuffer, 16, 24))

SubtreeValid ==
    /\ Len(uBuffer) >= 24
    /\ PySlice(uBuffer, 0, 4) = SubtreeMagic
    /\ PySlice(uBuffer, 4, 8) = ToLE(1, 4)
    /\ uJsonLen # 0

\* C15: on an input with valid magic, version 1 and a non-zero JSON length,
\* a successful getChunksFromBuffer means the input is 24 + jsonByteLength +
\* binaryByteLength bytes long; whenever the declared binary length differs
\* from totalSize - 24 - jsonLen (a declared 0 with trailing bytes included)
\* the call fails.
C15_SubtreeSizeInvariant ==
    (uOut # NotCalled /\ SubtreeValid) =>
        /\ uOut.kind = "chunks" => Len(uBuffer) = 24 + uJsonLen + uBinLen
        /\ uBinLen # Len(uBuffer) - 24 - uJsonLen => uOut.kind = "raise"

(***************************************************************************)
(* Claims about denormalize                                                *)
(***************************************************************************)
\* num / den is at most 1 in magnitude
InUnit(q) == q.num = q.den \/ U64Less(q.num, q.den)

IsMostNegative == nType \in SignedTypes /\ nValue.neg /\ nValue.mag = TypeMinMagnitude(nType)

\* C18: for every integer component type and every raw value of the type,
\* denormalize returns a value in [0, 1] for the unsigned types and in
\* [-1, 1] for the signed ones, and exactly -1 for the most negative signed
\* value.
C18_NormalizeBounds ==
    (nOut # NotCalled /\ nType \in UnsignedTypes \cup SignedTypes) =>
        /\ nOut.kind = "float"
        /\ InUnit(nOut)
        /\ nType \in UnsignedTypes => ~nOut.neg
        /\ IsMostNegative => nOut = MinusOne(nOut.den)

C18_Witness == nOut # NotCalled /\ IsMostNegative /\ nOut = MinusOne(TypeMax(nType))

(***************************************************************************)
(* Claims about the property decoder                                       *)
(***************************************************************************)
\* the documents present paired with the result of their call
Decoded ==
    { [doc |-> docNew, out |-> outNew] }
    \cup IF docOld = Absent THEN {} ELSE { [doc |-> docOld, out |-> outOld] }

\* C16: property count law: in both extension generations and for every
\* property type and component type, getFeatureTablePropertyValues returns a
\* sequence whose length is the table's element count.
C16_PropertyCountLaw ==
    \A d \in Decoded :
        d.out # NotCalled => d.out.kind = "values" /\ Len(d.out.v) = d.doc.count

DeclaresTransform(doc) == Has(doc.classProp, "offset") \/ Has(doc.classProp, "scale")

\* the document with offset and scale taken out of its class property
WithoutTransform(doc) ==
    [doc EXCEPT !.classProp =
        [key \in DOMAIN doc.classProp \ {"offset", "scale"} |-> doc.classProp[key]]]

\* the property's values are rows (vectors, matrices, arrays), not numbers
IsRows(doc) ==
    \/ doc.classProp.type \in {"VEC2", "VEC3", "VEC4", "MAT2", "MAT3", "MAT4", "ARRAY"}
    \/ Has(doc.classProp, "array")

Affine(doc, raw) ==
    (IF Has(doc.classProp, "offset") THEN doc.classProp.offset ELSE 0)
    + (IF Has(doc.classProp, "scale") THEN doc.classProp.scale ELSE 1) * raw

\* offset + scale * raw over the raw values of the property
TransformedValues(doc) ==
    LET raw == getFeatureTablePropertyValues(WithoutTransform(doc)).v
    IN  IF IsRows(doc)
        THEN [i \in 1..Len(raw) |-> [j \in 1..Len(raw[i]) |-> Affine(doc, raw[i][j])]]
        ELSE [i \in 1..Len(raw) |-> Affine(doc, raw[i])]

Float32Example ==
    Document(EXT_STRUCTURAL_METADATA, 4,
             [type |-> "SCALAR", componentType |-> "FLOAT32", offset |-> 10, scale |-> 2],
             [values |-> 0], <<ViewOf(TRUE, 0, 16)>>,
             <<0, 0, 128, 63, 0, 0, 0, 64, 0, 0, 64, 64, 0, 0, 128, 64>>, NoKeys)

\* C17: offset/scale transform: for every numeric property whose class
\* declares offset and/or scale (scalars, vectors, matrices, arrays) each
\* decoded component is offset + scale * raw value, defaults 0 and 1; the
\* FLOAT32 scalar 1, 2, 3, 4 with offset 10 and scale 2 decodes to
\* 12, 14, 16, 18.
C17_OffsetScaleTransform ==
    \A d \in Decoded :
        ( /\ d.out # NotCalled
          /\ DeclaresTransform(d.doc)
          /\ ~Has(d.doc.classProp, "normalized")
          /\ getFeatureTablePropertyValues(WithoutTransform(d.doc)).kind = "values" ) =>
            /\ d.out = Values(TransformedValues(d.doc))
            /\ d.doc = Float32Example => d.out = Values(<<12, 14, 16, 18>>)

\* a BOOLEAN property: of type BOOLEAN, or an ARRAY with BOOLEAN components
IsBooleanProperty(doc) ==
    \/ doc.classProp.type = "BOOLEAN"
    \/ Has(doc.classProp, "componentType") /\ doc.classProp.componentType = "BOOLEAN"

\* the count of a fixed array's rows, 0 for a property that is no array
RowLength(doc) ==
    IF Has(doc.classProp, "array") THEN doc.classProp.count
    ELSE IF doc.classProp.type = "ARRAY" THEN doc.classProp.componentCount
    ELSE 0

\* the bytes of the values buffer view, byteOffset defaulting to 0
ValuesView(doc) ==
    LET view == doc.bufferViews[doc.tableProp[IF doc.mode = EXT_FEATURE_METADATA
                                              THEN "bufferView" ELSE "values"] + 1]
        start == IF "byteOffset" \in DOMAIN view THEN view.byteOffset ELSE 0
    IN  SubSeq(doc.buffer, start + 1, start + view.byteLength)

\* bit (k mod 8), least significant first, of byte (k div 8)
PackedBit(bytes, k) == (bytes[(k \div 8) + 1] \div (2 ^ (k % 8))) % 2 = 1

PackedValues(doc) ==
    IF RowLength(doc) = 0
    THEN [i \in 1..doc.count |-> PackedBit(ValuesView(doc), i - 1)]
    ELSE [i \in 1..doc.count |->
             [j \in 1..RowLength(doc) |->
                 PackedBit(ValuesView(doc), (i - 1) * RowLength(doc) + (j - 1))]]

\* C19: packed booleans: for every BOOLEAN property the decoded value at
\* flat bit position k (k = i for a scalar, k = i*C + j in a fixed array of
\* count C) is bit (k mod 8), least significant first, of byte (k div 8) of
\* the values buffer view, also when the bit count is no multiple of 8; 10
\* elements over the bytes A5 02 decode to T F T F F T F T F T.
C19_PackedBooleans ==
    \A d \in Decoded :
        (d.out # NotCalled /\ IsBooleanProperty(d.doc)) =>
            /\ d.out = Values(PackedValues(d.doc))
            /\ (d.doc.count = 10 /\ RowLength(d.doc) = 0 /\ ValuesView(d.doc) = <<165, 2>>) =>
                   d.out = Values(<<TRUE, FALSE, TRUE, FALSE, FALSE, TRUE, FALSE, TRUE,
                                    FALSE, TRUE>>)

\* C20: extension-generation equivalence: a property held once under
\* EXT_feature_metadata and once under EXT_structural_metadata over the same
\* buffers decodes to element-wise equal values in both documents.
C20_GenerationEquivalence ==
    (docOld # Absent /\ outOld # NotCalled /\ outNew # NotCalled) =>
        /\ outOld.kind = "values"
        /\ outNew.kind = "values"
        /\ outOld.v = outNew.v

(***************************************************************************)
(* Claims about the buffer views of a property                             *)
(***************************************************************************)
\* the document with "byteOffset": 0 written in every buffer view that
\* leaves the member out
WithByteOffsets(doc) ==
    [doc EXCEPT !.bufferViews =
        [i \in 1..Len(doc.bufferViews) |->
            IF Has(doc.bufferViews[i], "byteOffset") THEN doc.bufferViews[i]
            ELSE [byteOffset |-> 0] @@ doc.bufferViews[i]]]

OmitsByteOffset(doc) ==
    \E i \in 1..Len(doc.bufferViews) : ~Has(doc.bufferViews[i], "byteOffset")

\* C21: default byteOffset: a document whose buffer view has no byteOffset
\* member decodes exactly as the same document with "byteOffset": 0 written,
\* for every property type.
C21_DefaultByteOffset ==
    \A d \in Decoded :
        d.out # NotCalled /\ OmitsByteOffset(d.doc)
            => d.out = getFeatureTablePropertyValues(WithByteOffsets(d.doc))

\* a buffer view that starts before its buffer or ends after it
OutOfRange(doc) ==
    \E i \in 1..Len(doc.bufferViews) :
        LET view == doc.bufferViews[i]
        IN  \/ ByteOffsetOrZero(view) < 0
            \/ ByteOffsetOrZero(view) + view.byteLength > Len(doc.buffer)

\* C22: buffer view range check: a property with a buffer view of negative
\* byteOffset, or one that ends after its buffer, fails to decode; no values
\* are returned from a shortened or wrapped-around slice.
C22_BufferViewRangeCheck ==
    \A d \in Decoded :
        d.out # NotCalled /\ OutOfRange(d.doc) => d.out.kind = "raise"

\* C23: empty table: with element count 0 the call returns the empty
\* sequence and does not fail, whatever the property's type and the
\* byteLength of its buffer views.
C23_EmptyTable ==
    \A d \in Decoded :
        d.out # NotCalled /\ d.doc.count = 0 => d.out = Values(<<>>)

(***************************************************************************)
(* Claims about the buffers of a document                                  *)
(***************************************************************************)
lDeclared == IF Has(lDoc, "buffers") THEN lDoc.buffers ELSE <<>>

\* the BIN chunk of the file, NoneVal when it has none
BinChunk == getChunksFromBuffer(lFile).bindata

\* a buffer without uri is buffer 0 of a GLB with a BIN chunk
Resolvable ==
    \A i \in 1..Len(lDeclared) :
        lDeclared[i] = NoUri
            => i = 1 /\ PySlice(lFile, 0, 4) = GltfMagic /\ BinChunk # NoneVal

\* the bytes the document declares for buffer i
DeclaredBytes(i) ==
    IF lDeclared[i] = NoUri THEN BinChunk
    ELSE IF lDeclared[i].kind = "data" THEN B64Decode(lDeclared[i].text)
    ELSE BufferFile(lDeclared[i].name)

LoadedOnce == lpc = "constructed" /\ lLoads = 1 /\ lOut = NoneVal

\* C28: buffer index alignment: after construction and one call of
\* loadAllBuffers that returns, buffers[i] holds the bytes of the document's
\* buffer i, for glTF JSON and for GLB with and without a BIN chunk.
C28_BufferIndexAlignment ==
    LoadedOnce /\ Resolvable
        => \A i \in 1..Len(lDeclared) :
               /\ i <= Len(lBuffers)
               /\ lBuffers[i] = DeclaredBytes(i)

(***************************************************************************)
(* Claims about the end of the search                                      *)
(***************************************************************************)
\* the probes a binary search makes at most among n positions
ProbeBound(n) == IF n = 0 THEN 0 ELSE Log2(n) + 1

\* an iteration of the loop that is followed by another one
LoopAgain == spc = "loop" /\ spc' = "loop"

\* C27: binary search convergence: for every index and key the loop ends;
\* high - low shrinks on every iteration that does not end it; the entries
\* probed number at most 5 in an index of 30 entries (and at most
\* floor(log2(N + 1)) + 1 in one of N).
C27_BinarySearchConvergence ==
    /\ [][LoopAgain => high' - low' < high - low]_vars
    /\ [](Len(probed) <= ProbeBound(IndexLen(sIndex) + 1))
    /\ [](IndexLen(sIndex) = 30 => Len(probed) <= 5)
    /\ <>(spc = "done")

\* a search that ended after the most probes an index of LongIndexEntries
\* entries allows
C27_Witness ==
    /\ spc = "done"
    /\ IndexLen(sIndex) = LongIndexEntries
    /\ IsSortedEntries(sEntries)
    /\ Len(probed) = ProbeBound(LongIndexEntries + 1)
    /\ sRet.kind = "int"

(***************************************************************************)
(* Claims about the responses of the HTTP handlers                         *)
(***************************************************************************)
\* the last request went to the branch of do_GET that calls getFile
Dispatched ==
    /\ hResponse.kind = "response"
    /\ hRequest.path # PathPage /\ ~IsStaticPath(hRequest.path)

NotFound == Dispatched /\ hResponse.file.kind = "None"

Found == Dispatched /\ hResponse.file.kind = "FileContents"

\* C30: a GET outside "/", "/favicon.ico" and "/resources/" for which getFile
\* returns None is answered with the status 404 and with no 200 status line
\* before it, and a 200 status is emitted only when the file was found.
C30_NotFoundResponse ==
    /\ NotFound => hResponse.status = <<404>>
    /\ (Dispatched /\ \E i \in 1..Len(hResponse.status) : hResponse.status[i] = 200)
          => Found

\* the archive and the inner path the last request names, None when none
RequestedEntry == ArchiveNamed(hKind, hRequest.path)

\* the entry as the archive stores it: method, stored bytes, declared size
StoredEntry ==
    IF ~Dispatched \/ RequestedEntry.kind = "None" THEN NoneVal
    ELSE LET c == FileAt(hFiles, RequestedEntry.archive)
         IN  SingleGetFile(SingleOpen(TRUE, c).handle, c, RequestedEntry.inner).ret

\* the entry's plain bytes
PlainEntry ==
    decompressFileContents(TRUE, StoredEntry.compMethod, StoredEntry.uncompSize,
                           StoredEntry.data)

\* the Accept-Encoding of the request includes the token: it is one of the
\* comma-separated codings, parameters and blanks around it dropped
IncludesToken(acceptHeader, token) ==
    \E h \in 1..Len(acceptHeader) :
       \E e \in 1..Len(Split(acceptHeader[h], 44)) :
          Strip(Split(Split(acceptHeader[h], 44)[e], 59)[1]) = token

ContentEncodings ==
    {hResponse.headers[i].value :
        i \in {j \in 1..Len(hResponse.headers) : hResponse.headers[j].name = "Content-Encoding"}}

\* C24: a GET that resolves to an archive entry is answered with
\* Content-Encoding deflate (zstd) and the stored bytes exactly when the entry
\* is deflated (zstd-compressed) and Accept-Encoding includes that token; in
\* every other case with the plain bytes and no Content-Encoding, a stored
\* entry verbatim.
C24_HttpEncodingContract ==
    (StoredEntry.kind = "FileContents" /\ PlainEntry.kind = "bytes")
    => IF /\ StoredEntry.compMethod = ZIP_COMPRESSION_METHOD_DEFLATE
          /\ IncludesToken(hRequest.accept, <<100, 101, 102, 108, 97, 116, 101>>)
       THEN ContentEncodings = {"deflate"} /\ hResponse.body = StoredEntry.data
       ELSE IF /\ StoredEntry.compMethod = ZIP_COMPRESSION_METHOD_ZSTD
               /\ IncludesToken(hRequest.accept, <<122, 115, 116, 100>>)
       THEN ContentEncodings = {"zstd"} /\ hResponse.body = StoredEntry.data
       ELSE ContentEncodings = {} /\ hResponse.body = PlainEntry.v

\* items without any MAXAR_content_3tz
RECURSIVE WithoutToken(_)
WithoutToken(items) ==
    IF items = <<>> THEN <<>>
    ELSE (IF Head(items) = MAXAR_content_3tz THEN <<>> ELSE <<Head(items)>>)
         \o WithoutToken(Tail(items))

\* the document with the token taken out of the two lists it may have
TokenRemoved(doc) ==
    IF doc.kind # "object" THEN doc
    ELSE [doc EXCEPT !.members =
             [i \in 1..Len(@) |->
                 IF @[i].k \in {KeyUsed, KeyRequired} /\ @[i].v.kind = "list"
                 THEN [@[i] EXCEPT !.v = JsonList(WithoutToken(@.v))]
                 ELSE @[i]]]

\* the last request was for a .json entry of an archive of Serve3tzHandler
\* that holds a JSON document
JsonEntryRequested ==
    /\ hKind = "3tz"
    /\ StoredEntry.kind = "FileContents"
    /\ EndsWith(RequestedEntry.inner, ExtJson)
    /\ PlainEntry.kind = "bytes"
    /\ JsonLoads(PlainEntry.v).kind # "raise"

\* C25: a .json entry served from an archive is the stored document with only
\* the MAXAR_content_3tz token removed from extensionsUsed and
\* extensionsRequired; a document without either list or without the token is
\* still served, unchanged.
C25_TilesetJsonStripping ==
    JsonEntryRequested
    => /\ Found /\ hResponse.ended
       /\ JsonLoads(hResponse.body) = TokenRemoved(JsonLoads(PlainEntry.v))

(***************************************************************************)
(* Claims about the archives a handler keeps open                          *)
(***************************************************************************)
\* no path was handed to Single3tzArchive twice
OpenedOnce ==
    \A i, j \in 1..Len(hOpened) : hOpened[i] = hOpened[j] => i = j

\* a step keeps every entry of self.archives, with the object it had
CacheKept ==
    \A p \in DOMAIN hArchives :
        p \in DOMAIN hArchives' /\ hArchives'[p].id = hArchives[p].id

\* a step opens the archive its request names if the dictionary has none for
\* that path, and opens nothing otherwise
OpenedLazily ==
    \E named \in {RequestedEntry'} :
        IF Dispatched' /\ named.kind = "match" /\ named.archive \notin DOMAIN hArchives
        THEN /\ hOpened' = Append(hOpened, named.archive)
             /\ hExited' \/ named.archive \in DOMAIN hArchives'
        ELSE hOpened' = hOpened /\ DOMAIN hArchives' = DOMAIN hArchives

\* C29: over the requests to a handler each archive path is opened at most
\* once, by the first request that names it; later requests for the path use
\* the same object, and no entry of the dictionary is removed or replaced,
\* also after a request for the archive ended in not-found.
C29_HandleCache == [][OpenedOnce' /\ CacheKept /\ OpenedLazily]_vars

\* a request is answered from an archive that an earlier request, which
\* ended in not-found, had found open or opened
C29_Witness ==
    /\ Found /\ RequestedEntry.kind = "match"
    /\ RequestedEntry.archive \in hRequest.missed
    /\ RequestedEntry.archive # RootPath
    /\ Cardinality({i \in 1..Len(hOpened) : hOpened[i] = RequestedEntry.archive}) = 1

(***************************************************************************)
(* Claims about handles used side by side                                  *)
(***************************************************************************)
\* the payload of the entry named path as the archive's directory places it,
\* None when the archive has no such entry
EntryPayload(c, path) ==
    LET items == {i \in 1..Len(c.infolist) : c.infolist[i].filename = path}
        item == c.infolist[CHOOSE i \in items : TRUE]
        start == item.header_offset + LOCALFILEHEADERSIZE + Len(path)
    IN  IF items = {} THEN NoneVal
        ELSE Bytes(PySlice(c.bytes, start, start + item.compress_size))

\* a finished getFile call returned the payload of the entry it asked for
OwnPayload(h) ==
    tFetch[h].pc = "done"
    => IF EntryPayload(tFile[h], tFetch[h].path).kind = "None"
       THEN tFetch[h].ret.kind = "None"
       ELSE /\ tFetch[h].ret.kind = "FileContents"
            /\ tFetch[h].ret.data = EntryPayload(tFile[h], tFetch[h].path).v

\* the position of a handle's file object changes only in a step of a call
\* on that handle
OwnPosition ==
    \A h \in DOMAIN tHandle :
        tHandle'[h].pos # tHandle[h].pos
        => /\ InCall(tFetch[h])
           /\ [tFetch'[h] EXCEPT !.met = FALSE] # [tFetch[h] EXCEPT !.met = FALSE]

\* C26: with one getFile call at a time on each handle, every call returns
\* the payload of the entry it asked for under every interleaving with calls
\* on other handles, and the position of a handle's file object is changed
\* only by that handle's own operations.
C26_IndependentHandles ==
    /\ [](\A h \in DOMAIN tFetch : OwnPayload(h))
    /\ [][OwnPosition]_vars

\* a call returned an entry's bytes after steps of another handle's call
\* had come between its own, both on the same archive
C26_Witness ==
    /\ tFile # <<>>
    /\ \E h \in Handles, j \in Handles :
          /\ j # h /\ tFile[j] = tFile[h]
          /\ tFetch[h].pc = "done" /\ tFetch[h].met
          /\ tFetch[h].ret.kind = "FileContents"
          /\ tFetch[j].pc = "readContents"
          /\ tFetch[j].path # tFetch[h].path

====
